---- MODULE Spec2Model ----
(***************************************************************************)
(* State-machine model of the market-data core of torgoviybot:             *)
(*   - WebSocketManager (src/core/websocket_manager.py): session life      *)
(*     cycle (start, _main_loop, _connect_and_subscribe) and the frame     *)
(*     handlers that feed BaseStrategy (src/strategies/base_strategy.py);  *)
(*   - MarketManager (src/core/market_manager.py) with DataProcessor,      *)
(*     MarketDataStore and SignalProcessor.                                *)
(* Prices, volumes and times are integers; confidences are integers in     *)
(* units of 1/ConfScale so that the mean of the vote weights is exact.     *)
(***************************************************************************)
EXTENDS Integers, Sequences, FiniteSets, TLC

VARIABLES
    \* ---- WebSocketManager session (websocket_manager.py:23-71) ----
    main_task,          \* position of the _main_loop task
    is_connected,       \* self.is_connected
    reconnect_count,    \* self.reconnect_count
    start_call,         \* position of the caller inside start()
    start_attempt,      \* loop variable of start()'s "for attempt in range(10)"
    owner_errors,       \* exceptions that propagated to the owner of the session
    \* history of the session, recorded for the properties
    sleeps,             \* backoff delays slept since the last successful connect
    failures,           \* consecutive failures since the last successful connect
    connect_calls,      \* number of _connect_and_subscribe calls so far
    connect_successes,  \* number of successful _connect_and_subscribe calls
    subscribe_ack,      \* the answer to the subscribe request of the current
                        \* connection: "none" so far, "ok" or "failed"
    \* ---- the connection of the session ----
    has_trade_subscription, \* the Settings object has the method
                        \* get_trade_subscription that _connect_and_subscribe
                        \* calls (websocket_manager.py:166); the class in
                        \* settings.py (lines 146-156) does not define it
    websocket,          \* self.websocket: 0 is None, 1 and 2 name socket
                        \* objects; two names tell a socket from the one
                        \* before it
    websocket_open,     \* that socket is open (not self.websocket.closed)
    sent,               \* the frames sent on that socket, in order
    ping_task,          \* self.ping_task: "none", or the state of the task it
                        \* refers to: "running", "done" or "cancelled"
    live_pings,         \* number of _ping_loop tasks created and neither
                        \* finished nor cancelled
    stop_call,          \* "not_called", or where the main task was when
                        \* stop() was called
    pings_while_busy,   \* number of pings the ping task sent while the read
                        \* loop was suspended inside a frame handler
    \* ---- rule evaluation in isolation ----
    eval_input,         \* arguments handed to the two rule functions
    eval_result,        \* what BaseStrategy and SignalProcessor returned for them
    \* ---- TelegramBot: AI market analysis (telegram_bot/bot.py:76-77) ----
    ai_analysis_in_progress, \* self.ai_analysis_in_progress
    last_ai_analysis,   \* self.last_ai_analysis: <<>> is None, else <<time>>
    ai_pc,              \* position of each _perform_ai_market_analysis call
    analyze_calls,      \* number of MarketAnalyzer.analyze_market calls so far
    \* ---- environment of the data path ----
    stack,              \* which object graph runs: "ws" = WebSocketManager with
                        \* BaseStrategy, "mm" = MarketManager with its components
    now,                \* datetime.now(), in minutes
    frames,             \* number of inbound frames and client calls handled so far
    next_id,            \* next sequence number the exchange gives a trade or book update
    last_frame,         \* the inbound frame handled by the last step, as
                        \* received; <<>> when the step handled none
    \* ---- WebSocketManager data (websocket_manager.py:35-56) ----
    kline_data,
    extended_kline_data,
    trade_data,
    extended_orderbook_history,
    \* ---- BaseStrategy (base_strategy.py:128-151) ----
    strategy_kline_data,        \* kline_data with close_prices, high_prices,
                                \* low_prices and volumes, which are appended
                                \* and trimmed together (lines 176-189)
    strategy_trade_data,
    strategy_signals_history,
    strategy_last_signal_time,  \* <<>> is None, <<t>> is the time t
    strategy_current_indicators,
    \* ---- MarketDataStore (market_data_store.py:16-40) ----
    store_klines,               \* self._klines
    store_trades,               \* self._trades
    store_orderbook_history,    \* self._orderbook_history
    \* ---- SignalProcessor (signal_processor.py:32-40) ----
    sp_signals_history,
    sp_last_signal_time,
    \* ---- history of the data path, recorded for the properties ----
    emitted,            \* every signal appended to a signals_history, in order
    sink_calls,         \* every signal handed to the signal callback, in order
    evaluations,        \* number of times indicators were computed for the rules
    confirmed_received, \* number of inbound confirmed candles not rejected by validation
    check_calls,        \* number of MarketManager._check_for_trading_signals calls
    cooldown_skips,     \* number of analyses abandoned by the cooldown test
    \* ---- the signal sink (on_signal_callback) ----
    read_loop,          \* where the frame handler of the WebSocketManager is:
                        \* "ready" for the next frame, or "in_sink" awaiting
                        \* on_signal_callback
    sink_running,       \* sink invocations started and not yet completed
    handler_errors,     \* exceptions caught and logged by the read loop or by
                        \* a frame handler
    \* ---- MarketDataStore price levels and the summaries it returned ----
    heap,               \* the list objects of the price levels: heap[r] is
                        \* the content of the list with reference r
    price_levels,       \* self._price_levels: for "resistance" and "support"
                        \* the reference of the list it is bound to
    last_summary,       \* <<>> or <<s>>, s the dict returned by the last
                        \* get_market_summary call of a client
    summary_view,       \* what last_summary read as when it was returned
    prev_summary,       \* <<>> or <<s>>, s the dict returned by the call
                        \* before, if the store was not written in between
    store_dirty,        \* the store was written since the last summary
    \* ---- MarketDataStore._lock and the thread running _handle_kline ----
    lock,               \* "free" or the thread that holds self._lock
    mm_pc,              \* position of the thread inside _handle_kline
    mm_pending,         \* <<>> or <<f>>, f the frame that thread is handling
    \* ---- WebSocketManager frame routing (websocket_manager.py:38,59-68) ----
    message_counts,     \* self.message_counts
    ticker_data,        \* self.ticker_data: <<>> is the empty dict
    strategy_ticker_data, \* self.strategy.ticker_data, likewise
    \* ---- order book snapshots and volume profiles ----
    orderbook_data,     \* WebSocketManager.orderbook_data: <<>> is the empty
                        \* dict, <<b>> the last snapshot
    volume_profile,     \* WebSocketManager.volume_profile: the levels of the
                        \* dict, in the order of the dict
    store_orderbook,    \* MarketDataStore._orderbook, likewise
    store_volume_profile \* MarketDataStore._volume_profile, likewise

session_vars == <<main_task, is_connected, reconnect_count, start_call,
                  start_attempt, owner_errors, sleeps, failures,
                  connect_calls, connect_successes, subscribe_ack,
                  has_trade_subscription, websocket, websocket_open, sent,
                  ping_task, live_pings, stop_call, pings_while_busy>>

\* the variables of the connection
conn_vars == <<has_trade_subscription, websocket, websocket_open, sent,
               ping_task, live_pings, stop_call, pings_while_busy>>

bot_vars == <<ai_analysis_in_progress, last_ai_analysis, ai_pc, analyze_calls>>

\* the variables outside the market-data path
eval_vars == <<eval_input, eval_result, bot_vars>>

env_vars == <<stack, now, frames, next_id, last_frame>>

ws_vars == <<kline_data, extended_kline_data, trade_data,
             extended_orderbook_history>>

strategy_vars == <<strategy_kline_data, strategy_trade_data,
                   strategy_signals_history, strategy_last_signal_time,
                   strategy_current_indicators>>

store_vars == <<store_klines, store_trades, store_orderbook_history>>

sp_vars == <<sp_signals_history, sp_last_signal_time>>

history_vars == <<emitted, sink_calls, evaluations, confirmed_received,
                  check_calls, cooldown_skips>>

sink_vars == <<read_loop, sink_running, handler_errors>>

snapshot_vars == <<heap, price_levels, last_summary, summary_view,
                   prev_summary, store_dirty>>

lock_vars == <<lock, mm_pc, mm_pending>>

book_vars == <<orderbook_data, volume_profile, store_orderbook,
               store_volume_profile>>

route_vars == <<message_counts, ticker_data, strategy_ticker_data, book_vars>>

data_vars == <<env_vars, ws_vars, strategy_vars, store_vars, sp_vars,
               history_vars, sink_vars, snapshot_vars, lock_vars,
               route_vars>>

vars == <<session_vars, eval_vars, data_vars>>

other_than_session == <<eval_vars, data_vars>>

(***************************************************************************)
(* Configuration (src/config/settings.py) and model bounds.                *)
(***************************************************************************)
WS_RECONNECT_ATTEMPTS == 5
WS_RECONNECT_DELAY == 5
StartPolls == 10

\* the model stops exploring after this many successful connects
MaxConnects == 2

Last(s) == s[Len(s)]

NonDecreasing(s) == \A i \in 1..(Len(s) - 1) : s[i] <= s[i + 1]

(***************************************************************************)
(* Signal rules.  A vote is [dir, weight, rule]; weights are in 1/100.     *)
(* A confidence is an integer in units of 1/ConfScale (ConfScale = 6000 =  *)
(* 100 * 60, and 60 is divisible by every possible number of votes 1..6),  *)
(* so sum(weights)/len(votes) is computed without rounding.                *)
(***************************************************************************)
RSI_OVERSOLD == 30
RSI_OVERBOUGHT == 70
ConfScale == 6000
\* MIN_SIGNAL_CONFIDENCE = 0.7, in units of 1/ConfScale
MIN_SIGNAL_CONFIDENCE == 4200
\* the volume bonuses 0.1 and 0.15, in units of 1/ConfScale
BonusSmall == 600
BonusLarge == 900
\* number of recent volumes (candles or trades) the volume rule averages:
\* the literal 10 of base_strategy.py:299-300 and signal_processor.py:220-224
VolumeWindow == 3

Vote(dir, weight, rule) == [dir |-> dir, weight |-> weight, rule |-> rule]

RECURSIVE SumWeights(_)
SumWeights(votes) ==
    IF votes = <<>> THEN 0 ELSE Head(votes).weight + SumWeights(Tail(votes))

RECURSIVE SumSeq(_)
SumSeq(s) == IF s = <<>> THEN 0 ELSE Head(s) + SumSeq(Tail(s))

\* a faulty variant of LastN: the oldest n items are kept
LastNKeepsOldest(s, n) == IF Len(s) > n THEN SubSeq(s, 1, n) ELSE s

\* Python's s[-n:] for n > 0
LastN(s, n) == IF Len(s) > n THEN SubSeq(s, Len(s) - n + 1, Len(s)) ELSE s

\* Python's s[:n]
FirstN(s, n) == IF Len(s) > n THEN SubSeq(s, 1, n) ELSE s

OfDir(votes, dir) == SelectSeq(votes, LAMBDA v : v.dir = dir)

Rules(votes) == [i \in 1..Len(votes) |-> votes[i].rule]

\* sum(s[1] for s in votes) / len(votes), in units of 1/ConfScale.  The
\* weights are multiples of 0.1 and at most six votes are averaged, so the
\* mean is a multiple of 1/ConfScale and the division is exact here.  The
\* code divides binary floats: for the votes (0.8, 0.6, 0.7) it obtains
\* 0.6999999999999998 where the exact mean is 0.7, so that at the threshold
\* itself the comparison of Emits may differ by one rounding.
MeanWeight(votes) == (SumWeights(votes) * 60) \div Len(votes)

Min(a, b) == IF a <= b THEN a ELSE b

Hold == [type |-> "HOLD", confidence |-> 0, reason |-> <<>>]

\* a faulty variant of ResolveVotes: an equal number of votes resolves to BUY
ResolveVotesTieBuys(votes, volume_boost, top) ==
    LET buy_signals == OfDir(votes, "BUY")
        sell_signals == OfDir(votes, "SELL")
    IN  IF votes = <<>> THEN Hold
        ELSE IF Len(buy_signals) >= Len(sell_signals)
        THEN [type |-> "BUY",
              confidence |-> Min(MeanWeight(buy_signals) + volume_boost, ConfScale),
              reason |-> Rules(FirstN(buy_signals, top))]
        ELSE [type |-> "SELL",
              confidence |-> Min(MeanWeight(sell_signals) + volume_boost, ConfScale),
              reason |-> Rules(FirstN(sell_signals, top))]

\* the closing "group by type" block shared by both engines:
\* base_strategy.py:360-377, signal_processor.py:188-209
ResolveVotes(votes, volume_boost, top) ==
    LET buy_signals == OfDir(votes, "BUY")
        sell_signals == OfDir(votes, "SELL")
    IN  IF votes = <<>> THEN Hold
        ELSE IF Len(buy_signals) > Len(sell_signals)
        THEN [type |-> "BUY",
              confidence |-> Min(MeanWeight(buy_signals) + volume_boost, ConfScale),
              reason |-> Rules(FirstN(buy_signals, top))]
        ELSE IF Len(sell_signals) > Len(buy_signals)
        THEN [type |-> "SELL",
              confidence |-> Min(MeanWeight(sell_signals) + volume_boost, ConfScale),
              reason |-> Rules(FirstN(sell_signals, top))]
        ELSE Hold

\* ---- BaseStrategy ----

\* indicators["avg_volume"] of _calculate_indicators as the fraction num/den
BsAvgVolume(volumes) ==
    IF Len(volumes) >= VolumeWindow
    THEN [num |-> SumSeq(LastN(volumes, VolumeWindow)), den |-> VolumeWindow]
    ELSE [num |-> IF volumes = <<>> THEN 0 ELSE Last(volumes), den |-> 1]

\* "current_volume > avg_volume * 1.5" gives 0.1, anything else 0
BsVolumeBoost(volumes) ==
    LET current_volume == IF volumes = <<>> THEN 0 ELSE Last(volumes)
        avg == BsAvgVolume(volumes)
    IN  IF 2 * avg.den * current_volume > 3 * avg.num THEN BonusSmall ELSE 0

\* the four rules of _analyze_conditions, in the order of the code
BsVotes(ind) ==
    (IF ind.rsi <= RSI_OVERSOLD THEN <<Vote("BUY", 80, "RSI")>>
     ELSE IF ind.rsi >= RSI_OVERBOUGHT THEN <<Vote("SELL", 80, "RSI")>>
     ELSE <<>>)
    \o
    (IF ind.sma_short > ind.sma_long /\ ind.current_price > ind.sma_short
     THEN <<Vote("BUY", 60, "MA")>>
     ELSE IF ind.sma_short < ind.sma_long /\ ind.current_price < ind.sma_short
     THEN <<Vote("SELL", 60, "MA")>>
     ELSE <<>>)
    \o
    \* the signal line is macd * 0.9 (base_strategy.py:98)
    (IF 10 * ind.macd > 9 * ind.macd /\ ind.macd > 0
     THEN <<Vote("BUY", 50, "MACD")>>
     ELSE IF 10 * ind.macd < 9 * ind.macd /\ ind.macd < 0
     THEN <<Vote("SELL", 50, "MACD")>>
     ELSE <<>>)
    \o
    (IF ind.current_price <= ind.bb_lower THEN <<Vote("BUY", 70, "BB")>>
     ELSE IF ind.current_price >= ind.bb_upper THEN <<Vote("SELL", 70, "BB")>>
     ELSE <<>>)

\* BaseStrategy._analyze_conditions; the reason joins every winning vote
BsAnalyzeConditions(ind, volumes) ==
    ResolveVotes(BsVotes(ind), BsVolumeBoost(volumes), Len(BsVotes(ind)))

\* ---- SignalProcessor ----

\* SignalProcessor._analyze_volume: the second branch is tested only when the
\* first is false
SpAnalyzeVolume(current_volume, trades) ==
    IF Len(trades) < VolumeWindow THEN 0
    ELSE LET recent_volumes == LastN(trades, VolumeWindow)
             num == SumSeq(recent_volumes)
             den == Len(recent_volumes)
         IN  IF 2 * den * current_volume > 3 * num THEN BonusSmall
             ELSE IF den * current_volume > 2 * num THEN BonusLarge
             ELSE 0

\* _analyze_orderbook_imbalance; the imbalance is in 1/100
SpOrderbookVote(order_imbalance) ==
    IF order_imbalance > 30 THEN <<Vote("BUY", 40, "OB")>>
    ELSE IF order_imbalance < -30 THEN <<Vote("SELL", 40, "OB")>>
    ELSE <<>>

\* _analyze_price_momentum: deviations of 2% and 1% from the two EMAs
SpMomentumVote(ind) ==
    IF ind.ema_short = 0 \/ ind.ema_long = 0 \/ ind.current_price = 0 THEN <<>>
    ELSE LET ds == ind.current_price - ind.ema_short
             dl == ind.current_price - ind.ema_long
         IN  IF 100 * ds > 2 * ind.ema_short /\ 100 * dl > ind.ema_long
             THEN <<Vote("BUY", 30, "MOM")>>
             ELSE IF 100 * ds < -2 * ind.ema_short /\ 100 * dl < -ind.ema_long
             THEN <<Vote("SELL", 30, "MOM")>>
             ELSE <<>>

\* rules 1-4, 6 and 7 of _analyze_trading_conditions, in the order of the code
SpVotes(ind, order_imbalance) ==
    (IF ind.rsi <= RSI_OVERSOLD THEN <<Vote("BUY", 80, "RSI")>>
     ELSE IF ind.rsi >= RSI_OVERBOUGHT THEN <<Vote("SELL", 80, "RSI")>>
     ELSE <<>>)
    \o
    (IF ind.sma_short # 0 /\ ind.sma_long # 0
     THEN IF ind.sma_short > ind.sma_long /\ ind.current_price > ind.sma_short
          THEN <<Vote("BUY", 60, "MA")>>
          ELSE IF ind.sma_short < ind.sma_long /\ ind.current_price < ind.sma_short
          THEN <<Vote("SELL", 60, "MA")>>
          ELSE <<>>
     ELSE <<>>)
    \o
    \* macd_signal is macd * 0.9 (data_processor.py:370); "if macd and macd_signal"
    (IF ind.macd # 0
     THEN IF 10 * ind.macd > 9 * ind.macd /\ ind.macd > 0
          THEN <<Vote("BUY", 50, "MACD")>>
          ELSE IF 10 * ind.macd < 9 * ind.macd /\ ind.macd < 0
          THEN <<Vote("SELL", 50, "MACD")>>
          ELSE <<>>
     ELSE <<>>)
    \o
    (IF ind.bb_upper # 0 /\ ind.bb_lower # 0
     THEN IF ind.current_price <= ind.bb_lower THEN <<Vote("BUY", 70, "BB")>>
          ELSE IF ind.current_price >= ind.bb_upper THEN <<Vote("SELL", 70, "BB")>>
          ELSE <<>>
     ELSE <<>>)
    \o SpOrderbookVote(order_imbalance)
    \o SpMomentumVote(ind)

\* SignalProcessor._analyze_trading_conditions; the reason joins the first
\* three winning votes
SpAnalyzeTradingConditions(ind, order_imbalance, current_volume, trades) ==
    IF ind.current_price = 0 THEN Hold
    ELSE ResolveVotes(SpVotes(ind, order_imbalance),
                      SpAnalyzeVolume(current_volume, trades), 3)

\* "signal_type == HOLD or confidence < MIN_SIGNAL_CONFIDENCE: return None"
Emits(result) ==
    ~(result.type = "HOLD" \/ result.confidence < MIN_SIGNAL_CONFIDENCE)

(***************************************************************************)
(* The two rule functions applied in isolation to enumerated arguments.    *)
(***************************************************************************)
\* (sma_short, sma_long), (bb_lower, bb_upper), (ema_short, ema_long) around
\* a current price of 100: a BUY case, a SELL case and a neutral case each
MaCases == {<<99, 98>>, <<101, 102>>, <<100, 100>>}
BbCases == {<<100, 110>>, <<90, 100>>, <<90, 110>>}
EmaCases == {<<90, 95>>, <<110, 105>>, <<100, 100>>}

Indicators(rsi, ma, macd, bb, ema, price) ==
    [rsi |-> rsi, sma_short |-> ma[1], sma_long |-> ma[2], macd |-> macd,
     bb_lower |-> bb[1], bb_upper |-> bb[2], ema_short |-> ema[1],
     ema_long |-> ema[2], current_price |-> price]

IndicatorCases ==
    {Indicators(r, ma, m, bb, e, 100) :
        r \in {30, 50, 70}, ma \in MaCases, m \in {-1, 0, 1},
        bb \in BbCases, e \in EmaCases}
    \cup {Indicators(30, <<99, 98>>, 1, <<100, 110>>, <<90, 95>>, 0)}

\* VolumeWindow volumes, all 1 but the last
VolumesEndingIn(v) == [i \in 1..VolumeWindow |-> IF i = VolumeWindow THEN v ELSE 1]

\* the sizes of VolumeWindow trades of size 2 each, or no trades
TradeCases == {<<>>, [i \in 1..VolumeWindow |-> 2]}

EvalInputs ==
    [ind : IndicatorCases, order_imbalance : {-31, 0, 31},
     volumes : {VolumesEndingIn(v) : v \in {1, 4, 9}}, trades : TradeCases]

EvalOf(in) ==
    LET bs == BsAnalyzeConditions(in.ind, in.volumes)
        sp == SpAnalyzeTradingConditions(in.ind, in.order_imbalance,
                                         Last(in.volumes), in.trades)
    IN  [bs |-> bs, bs_emits |-> Emits(bs), sp |-> sp, sp_emits |-> Emits(sp)]

\* requests for an AI analysis made to the bot
MaxRequests == 3

\* Settings.AI_ANALYSIS_COOLDOWN_MINUTES, the default of settings.py
AI_ANALYSIS_COOLDOWN_MINUTES == 0

\* TelegramBot.__init__: no analysis so far, none running
BotInit ==
    /\ ai_analysis_in_progress = FALSE
    /\ last_ai_analysis = <<>>
    /\ ai_pc = [r \in 1..MaxRequests |-> "idle"]
    /\ analyze_calls = 0

EvalIdle == eval_input = <<>> /\ eval_result = <<>> /\ BotInit

Evaluate ==
    /\ eval_input = <<>>
    /\ \E in \in EvalInputs :
          /\ eval_input' = <<in>>
          /\ eval_result' = <<EvalOf(in)>>
    /\ UNCHANGED <<session_vars, data_vars, bot_vars>>

(***************************************************************************)
(* TechnicalIndicators (base_strategy.py:29-122); the DataProcessor has the *)
(* same functions as _calculate_rsi, _calculate_sma, _calculate_ema,       *)
(* _calculate_bollinger_bands and its own _calculate_volatility            *)
(* (data_processor.py:391-466).  Prices are integers; a float result is    *)
(* the fraction n/d, and `raised` tells that the function raised instead   *)
(* of returning (ZeroDivisionError or IndexError).                         *)
(***************************************************************************)
\* longest price series and largest window handed to the indicators
MaxSeries == 4
MaxPeriod == 3

Flt(n, d) == [raised |-> FALSE, n |-> n, d |-> d]

Raised == [raised |-> TRUE, n |-> 0, d |-> 1]

\* the float x is the integer k
FltEq(x, k) == ~x.raised /\ x.n = k * x.d

\* data[-period:], which is the whole list for period = 0
PyLast(data, period) == IF period = 0 THEN data ELSE LastN(data, period)

Sma(data, period) ==
    IF Len(data) < period THEN Flt(0, 1)
    ELSE IF period = 0 THEN Raised
    ELSE Flt(SumSeq(PyLast(data, period)), period)

\* ema_value = price * multiplier + previous * (1 - multiplier), with
\* multiplier = 2 / (period + 1), from the first price on
RECURSIVE EmaValue(_, _)
EmaValue(data, period) ==
    IF Len(data) = 1 THEN Flt(data[1], 1)
    ELSE LET prev == EmaValue(SubSeq(data, 1, Len(data) - 1), period)
         IN  Flt(2 * data[Len(data)] * prev.d + prev.n * (period - 1),
                 prev.d * (period + 1))

Ema(data, period) ==
    IF Len(data) < period THEN Flt(0, 1)
    ELSE IF data = <<>> THEN Raised
    ELSE EmaValue(data, period)

Gains(data) ==
    [i \in 1..(Len(data) - 1) |->
        IF data[i + 1] - data[i] > 0 THEN data[i + 1] - data[i] ELSE 0]

Losses(data) ==
    [i \in 1..(Len(data) - 1) |->
        IF data[i + 1] - data[i] > 0 THEN 0 ELSE data[i] - data[i + 1]]

\* 100 - 100 / (1 + avg_gain / avg_loss) is 100 * gain / (gain + loss) for
\* the sums of the trailing gains and losses
Rsi(data, period) ==
    IF Len(data) < period + 1 THEN Flt(50, 1)
    ELSE IF Len(Gains(data)) < period THEN Flt(50, 1)
    ELSE IF period = 0 THEN Raised
    ELSE LET gain == SumSeq(PyLast(Gains(data), period))
             loss == SumSeq(PyLast(Losses(data), period))
         IN  IF loss = 0 THEN Flt(100, 1)
             ELSE Flt(100 * gain, gain + loss)

\* sum((x - sma) ** 2 for x in data[-period:]) / period, sma the average of
\* the same prices
Variance(data, period) ==
    LET recent == PyLast(data, period)
        total == SumSeq(recent)
    IN  Flt(SumSeq([i \in DOMAIN recent |->
                       (period * recent[i] - total) * (period * recent[i] - total)]),
            period * period * period)

\* a faulty variant of BollingerBands: the last price is taken without the
\* test for an empty series
BollingerBandsNoEmptyTest(data, period, std_dev) ==
    IF Len(data) < period
    THEN IF data = <<>> THEN [raised |-> TRUE, middle |-> Flt(0, 1),
                              width_sq |-> Flt(0, 1)]
         ELSE [raised |-> FALSE, middle |-> Flt(data[Len(data)], 1),
               width_sq |-> Flt(0, 1)]
    ELSE IF period = 0
         THEN [raised |-> TRUE, middle |-> Flt(0, 1), width_sq |-> Flt(0, 1)]
         ELSE LET variance == Variance(data, period)
              IN  [raised |-> FALSE, middle |-> Sma(data, period),
                   width_sq |-> Flt(variance.n * std_dev * std_dev, variance.d)]

\* the bands are middle - w, middle, middle + w with w = std * std_dev; the
\* square root is not taken here, width_sq is the square of w
BollingerBands(data, period, std_dev) ==
    IF Len(data) < period
    THEN [raised |-> FALSE,
          middle |-> Flt(IF data # <<>> THEN data[Len(data)] ELSE 0, 1),
          width_sq |-> Flt(0, 1)]
    ELSE IF period = 0
         THEN [raised |-> TRUE, middle |-> Flt(0, 1), width_sq |-> Flt(0, 1)]
         ELSE LET variance == Variance(data, period)
              IN  [raised |-> FALSE, middle |-> Sma(data, period),
                   width_sq |-> Flt(variance.n * std_dev * std_dev, variance.d)]

\* the square of _calculate_volatility: (variance / mean_price ** 2) * 100 ** 2
VolatilitySquared(prices) ==
    IF Len(prices) < 2 THEN Flt(0, 1)
    ELSE IF SumSeq(prices) = 0 THEN Raised
    ELSE LET variance == Variance(prices, Len(prices))
             total == SumSeq(prices)
         IN  Flt(10000 * variance.n * Len(prices) * Len(prices),
                 variance.d * total * total)

IndicatorsOf(data, period) ==
    [sma |-> Sma(data, period), ema |-> Ema(data, period),
     rsi |-> Rsi(data, period), bb |-> BollingerBands(data, period, 2),
     volatility_sq |-> VolatilitySquared(data)]

IndicatorPrices == {1, 2, 3}

IndicatorSeries ==
    UNION {[1..n -> IndicatorPrices] : n \in 0..MaxSeries}

ComputeIndicators ==
    /\ eval_input = <<>>
    /\ \E data \in IndicatorSeries, period \in 0..MaxPeriod :
          /\ eval_input' = <<[data |-> data, period |-> period]>>
          /\ eval_result' = <<IndicatorsOf(data, period)>>
    /\ UNCHANGED <<session_vars, data_vars, bot_vars>>

(***************************************************************************)
(* Data path: limits.  The capacities and windows of the source are scaled *)
(* down so that TLC can fill a buffer and overflow it; the source values   *)
(* are given with each one.  The order between them is the source's:       *)
(* VolumeWindow <= MinKlines <= KLINE_LIMIT and SummaryKlines < MinKlines. *)
(***************************************************************************)
\* settings.KLINE_LIMIT (settings.py:95, default 100): WebSocketManager.max_klines
\* and the cap of the strategy's series
KLINE_LIMIT == 3
\* settings.AI_KLINES_COUNT (settings.py:78, default 50): max_extended_klines
AI_KLINES_COUNT == 2
\* WebSocketManager.max_trades (websocket_manager.py:54, 1000)
WsMaxTrades == 2
\* WebSocketManager.max_orderbook_history (websocket_manager.py:56, 50)
WsMaxOrderbookHistory == 2
\* the cap of BaseStrategy.trade_data (base_strategy.py:169-170, 1000)
StrategyMaxTrades == 2
\* MarketDataStore(max_klines=200, max_trades=1000, max_orderbook_history=50)
StoreMaxKlines == 3
StoreMaxTrades == 3
StoreMaxOrderbookHistory == 2
\* candles needed before rules are evaluated: the literal 30 of
\* base_strategy.py:192 and signal_processor.py:65, 384
MinKlines == 3
\* get_market_summary hands out the last 20 candles and the last 50 trades
\* (market_data_store.py:188, 190)
SummaryKlines == 2
SummaryTrades == 3
\* the cap of both signals_history lists (base_strategy.py:235,
\* signal_processor.py:109: 100)
SignalsHistoryLimit == 1
\* settings.SIGNAL_COOLDOWN_MINUTES (settings.py:105, default 5)
SIGNAL_COOLDOWN_MINUTES == 2
\* the clock stops at MaxTime and the exchange after MaxFrames frames
MaxTime == 3
MaxFrames == 4

\* pings a ping task sends on one socket
MaxPings == 2

(***************************************************************************)
(* Inbound frames.                                                         *)
(***************************************************************************)
KlineInfo(start, o, h, l, c, v, confirm) ==
    [start |-> start, open |-> o, high |-> h, low |-> l, close |-> c,
     volume |-> v, confirm |-> confirm]

\* a well-formed candle and one whose open lies above its high
GoodKlineInfo(start, v, confirm) == KlineInfo(start, 100, 101, 99, 100, v, confirm)
BadKlineInfo(start, v, confirm) == KlineInfo(start, 102, 101, 99, 100, v, confirm)

\* indicator values that cast no vote, the RSI BUY vote alone (0.8), the MACD
\* BUY vote alone (0.5, below the minimum), and an RSI BUY against an MA SELL
IndNeutral == Indicators(50, <<100, 100>>, 0, <<90, 110>>, <<100, 100>>, 100)
IndOversold == Indicators(30, <<100, 100>>, 0, <<90, 110>>, <<100, 100>>, 100)
IndMacdBuy == Indicators(50, <<100, 100>>, 1, <<90, 110>>, <<100, 100>>, 100)

OhlcValid(k) ==
    /\ k.low <= k.open /\ k.open <= k.high
    /\ k.low <= k.close /\ k.close <= k.high

Volumes(klines) == [i \in 1..Len(klines) |-> klines[i].volume]

Sizes(trades) == [i \in 1..Len(trades) |-> trades[i].size]

NewSignal(result, price, ind) ==
    [signal_type |-> result.type, price |-> price,
     confidence |-> result.confidence, timestamp |-> now,
     reason |-> result.reason, indicators |-> ind]

\* outcomes of an analysis that returned None before the rules were evaluated
NoSignal == [evaluated |-> FALSE, cooldown |-> FALSE, signal |-> <<>>]

CooldownSkip == [evaluated |-> FALSE, cooldown |-> TRUE, signal |-> <<>>]

(***************************************************************************)
(* BaseStrategy                                                            *)
(***************************************************************************)
\* a faulty variant of BsIsSignalCooldown: the cooldown is never in force
BsIsSignalCooldownNever(last_signal_time) == FALSE

\* BaseStrategy._is_signal_cooldown
BsIsSignalCooldown(last_signal_time) ==
    /\ last_signal_time # <<>>
    /\ now - last_signal_time[1] < SIGNAL_COOLDOWN_MINUTES

\* BaseStrategy._generate_signal on the series `series`; `ind` is what
\* _calculate_indicators returns for it
BsGenerateSignal(series, ind) ==
    IF BsIsSignalCooldown(strategy_last_signal_time) THEN CooldownSkip
    ELSE LET result == BsAnalyzeConditions(ind, Volumes(series))
         IN  [evaluated |-> TRUE, cooldown |-> FALSE,
              signal |-> IF Emits(result)
                         THEN <<NewSignal(result, Last(series).close, ind)>>
                         ELSE <<>>]

\* a faulty variant of BsShouldGenerate: the confirm flag is not looked at
BsShouldGenerateUnconfirmed(kline, series) == Len(series) >= MinKlines

\* the test of analyze_kline before _generate_signal
BsShouldGenerate(kline, series) == kline.confirm /\ Len(series) >= MinKlines

\* BaseStrategy.analyze_kline: the new series and what _generate_signal did
BsAnalyzeKline(kline, ind) ==
    LET series == LastN(Append(strategy_kline_data, kline), KLINE_LIMIT)
    IN  [series |-> series,
         outcome |-> IF BsShouldGenerate(kline, series)
                     THEN BsGenerateSignal(series, ind)
                     ELSE NoSignal]

(***************************************************************************)
(* WebSocketManager frame handlers                                         *)
(***************************************************************************)
\* the dict built at the top of the loop of _handle_kline_data
WsKline(kline_info) ==
    [timestamp |-> kline_info.start, open |-> kline_info.open,
     high |-> kline_info.high, low |-> kline_info.low,
     close |-> kline_info.close, volume |-> kline_info.volume,
     confirm |-> kline_info.confirm]

AbsDiff(a, b) == IF a >= b THEN a - b ELSE b - a

\* WebSocketManager._enhance_kline_data (the fields the model keeps)
EnhanceKlineData(kline) ==
    [timestamp |-> kline.timestamp, open |-> kline.open, high |-> kline.high,
     low |-> kline.low, close |-> kline.close, volume |-> kline.volume,
     confirm |-> kline.confirm, range |-> kline.high - kline.low,
     body |-> AbsDiff(kline.close, kline.open)]

\* the keys of self.message_counts (websocket_manager.py:59-68)
MessageKinds == {"total", "ticker", "kline", "orderbook", "trade", "ping",
                 "subscribe", "unknown"}

\* _listen_messages counts every frame it receives, before it decodes it
CountTotal == [message_counts EXCEPT !["total"] = @ + 1]

\* ... and _handle_message counts the decoded frame under its kind
CountFrame(kind) == [CountTotal EXCEPT ![kind] = @ + 1]

\* WebSocketManager._handle_kline_data for a frame carrying one candle
WsHandleKlineData(kline_info, ind) ==
    LET kline == WsKline(kline_info)
        analysis == BsAnalyzeKline(kline, ind)
        signal == analysis.outcome.signal
    IN  /\ stack = "ws"
        /\ read_loop = "ready"
        /\ frames < MaxFrames
        /\ frames' = frames + 1
        /\ last_frame' = <<[topic |-> "kline", data |-> kline_info]>>
        /\ IF kline.confirm
           THEN /\ kline_data' = LastN(Append(kline_data, kline), KLINE_LIMIT)
                /\ extended_kline_data' =
                       LastN(Append(extended_kline_data, EnhanceKlineData(kline)),
                             AI_KLINES_COUNT)
                /\ confirmed_received' = confirmed_received + 1
           ELSE UNCHANGED <<kline_data, extended_kline_data, confirmed_received>>
        \* signal = await self.strategy.analyze_kline(kline)
        /\ strategy_kline_data' = analysis.series
        /\ cooldown_skips' = IF analysis.outcome.cooldown THEN cooldown_skips + 1
                              ELSE cooldown_skips
        /\ IF analysis.outcome.evaluated
           THEN /\ evaluations' = evaluations + 1
                /\ strategy_current_indicators' = <<ind>>
           ELSE UNCHANGED <<evaluations, strategy_current_indicators>>
        /\ IF signal # <<>>
           THEN /\ strategy_signals_history' =
                       LastN(Append(strategy_signals_history, signal[1]),
                             SignalsHistoryLimit)
                /\ strategy_last_signal_time' = <<now>>
                /\ emitted' = Append(emitted, signal[1])
                \* await self.on_signal_callback(signal)
                /\ sink_calls' = Append(sink_calls, signal[1])
                /\ read_loop' = "in_sink"
                /\ sink_running' = sink_running + 1
           ELSE UNCHANGED <<strategy_signals_history, strategy_last_signal_time,
                            emitted, sink_calls, read_loop, sink_running>>
        /\ UNCHANGED handler_errors
        /\ UNCHANGED <<stack, now, next_id, trade_data,
                       extended_orderbook_history, strategy_trade_data,
                       store_vars, sp_vars, check_calls>>
        /\ message_counts' = CountFrame("kline")
        /\ UNCHANGED <<ticker_data, strategy_ticker_data, book_vars>>
        /\ UNCHANGED <<session_vars, eval_vars, snapshot_vars, lock_vars>>

\* WebSocketManager._handle_kline_data of a manager constructed without
\* on_signal_callback: "if signal and self.on_signal_callback" is False and
\* the signal analyze_kline returned is dropped
WsHandleKlineDataNoCallback(kline_info, ind) ==
    LET kline == WsKline(kline_info)
        analysis == BsAnalyzeKline(kline, ind)
        signal == analysis.outcome.signal
    IN  /\ stack = "ws"
        /\ read_loop = "ready"
        /\ frames < MaxFrames
        /\ frames' = frames + 1
        /\ last_frame' = <<[topic |-> "kline", data |-> kline_info]>>
        /\ IF kline.confirm
           THEN /\ kline_data' = LastN(Append(kline_data, kline), KLINE_LIMIT)
                /\ extended_kline_data' =
                       LastN(Append(extended_kline_data, EnhanceKlineData(kline)),
                             AI_KLINES_COUNT)
                /\ confirmed_received' = confirmed_received + 1
           ELSE UNCHANGED <<kline_data, extended_kline_data, confirmed_received>>
        /\ strategy_kline_data' = analysis.series
        /\ cooldown_skips' = IF analysis.outcome.cooldown THEN cooldown_skips + 1
                              ELSE cooldown_skips
        /\ IF analysis.outcome.evaluated
           THEN /\ evaluations' = evaluations + 1
                /\ strategy_current_indicators' = <<ind>>
           ELSE UNCHANGED <<evaluations, strategy_current_indicators>>
        /\ IF signal # <<>>
           THEN /\ strategy_signals_history' =
                       LastN(Append(strategy_signals_history, signal[1]),
                             SignalsHistoryLimit)
                /\ strategy_last_signal_time' = <<now>>
                /\ emitted' = Append(emitted, signal[1])
           ELSE UNCHANGED <<strategy_signals_history, strategy_last_signal_time,
                            emitted>>
        /\ UNCHANGED <<sink_calls, read_loop, sink_running, handler_errors>>
        /\ UNCHANGED <<stack, now, next_id, trade_data,
                       extended_orderbook_history, strategy_trade_data,
                       store_vars, sp_vars, check_calls>>
        /\ message_counts' = CountFrame("kline")
        /\ UNCHANGED <<ticker_data, strategy_ticker_data, book_vars>>
        /\ UNCHANGED <<session_vars, eval_vars, snapshot_vars, lock_vars>>

\* the trades of a frame: `n` trades numbered from next_id
TradeInfos(n) == [i \in 1..n |-> [id |-> next_id + i - 1, size |-> 2]]

RECURSIVE WsAppendTrades(_, _)
\* the loop of _handle_trade_data: append, then trim, for each trade
WsAppendTrades(buffer, infos) ==
    IF infos = <<>> THEN buffer
    ELSE WsAppendTrades(
             LastN(Append(buffer, [trade_id |-> Head(infos).id,
                                   size |-> Head(infos).size]), WsMaxTrades),
             Tail(infos))

\* WebSocketManager._handle_trade_data, then BaseStrategy.update_trades with
\* the frame's own list
WsHandleTradeData(n) ==
    /\ stack = "ws"
    /\ read_loop = "ready"
    /\ frames < MaxFrames
    /\ frames' = frames + 1
    /\ next_id' = next_id + n
    /\ last_frame' = <<[topic |-> "publicTrade", data |-> TradeInfos(n)]>>
    /\ trade_data' = WsAppendTrades(trade_data, TradeInfos(n))
    /\ strategy_trade_data' =
           LastN(strategy_trade_data \o TradeInfos(n), StrategyMaxTrades)
    /\ UNCHANGED <<stack, now, kline_data, extended_kline_data,
                   extended_orderbook_history, strategy_kline_data,
                   strategy_signals_history, strategy_last_signal_time,
                   strategy_current_indicators, store_vars, sp_vars,
                   history_vars>>
    /\ message_counts' = CountFrame("trade")
    /\ UNCHANGED <<ticker_data, strategy_ticker_data, book_vars>>
    /\ UNCHANGED <<session_vars, eval_vars, snapshot_vars, lock_vars,
                   sink_vars>>

(***************************************************************************)
(* Order books and volume profiles.  A frame is given by its spread and    *)
(* its order imbalance (in 1/100); its book has one bid and one ask, whose *)
(* prices differ by the spread and whose volumes give the imbalance        *)
(* (bid - ask) / (bid + ask).  A profile is the dict of price levels, as   *)
(* the sequence of its items in the order of the dict.                     *)
(***************************************************************************)
\* largest profile of the WebSocketManager (100 in the source), and of the
\* MarketDataStore (200 in the source, cut to 100 when exceeded)
WsVolumeProfileCap == 2
StoreVolumeProfileCap == 2
StoreVolumeProfileKeep == 1

\* orders of each side that enter the profile: bids[:10], asks[:10]
ProfileDepth == 10

Book(spread, imbalance) ==
    [bids |-> <<[price |-> 100, volume |-> 100 + imbalance]>>,
     asks |-> <<[price |-> 100 + spread, volume |-> 100 - imbalance]>>]

\* one turn of a loop of _update_volume_profile: the level of the order
\* (round(price, 2), the price itself for the whole prices used here) is
\* created if it is missing, then the volume is added to its side and to
\* its total
ProfileAdd(profile, order, side) ==
    LET present == {i \in DOMAIN profile : profile[i].price = order.price}
        with == IF present = {}
                THEN Append(profile, [price |-> order.price, bid_volume |-> 0,
                                      ask_volume |-> 0, total_volume |-> 0])
                ELSE profile
        i == CHOOSE i \in DOMAIN with : with[i].price = order.price
    IN  [with EXCEPT
             ![i] = [price |-> @.price,
                     bid_volume |-> @.bid_volume
                                    + (IF side = "bid" THEN order.volume ELSE 0),
                     ask_volume |-> @.ask_volume
                                    + (IF side = "ask" THEN order.volume ELSE 0),
                     total_volume |-> @.total_volume + order.volume]]

RECURSIVE ProfileAddAll(_, _, _)
ProfileAddAll(profile, orders, side) ==
    IF orders = <<>> THEN profile
    ELSE ProfileAddAll(ProfileAdd(profile, Head(orders), side), Tail(orders),
                       side)

\* sorted(items, key = total_volume, reverse = True)[:k]: the sort is stable,
\* so of two levels of equal volume the one earlier in the dict comes first
RECURSIVE TopByVolume(_, _)
TopByVolume(profile, k) ==
    IF k = 0 \/ profile = <<>> THEN <<>>
    ELSE LET i == CHOOSE i \in DOMAIN profile :
                      /\ \A j \in DOMAIN profile :
                             profile[j].total_volume <= profile[i].total_volume
                      /\ \A j \in 1..(i - 1) :
                             profile[j].total_volume < profile[i].total_volume
         IN  <<profile[i]>> \o
             TopByVolume(SubSeq(profile, 1, i - 1)
                             \o SubSeq(profile, i + 1, Len(profile)),
                         k - 1)

\* a faulty variant of UpdateVolumeProfile: the cut keeps the oldest levels
UpdateVolumeProfileKeepsOldest(profile, book, cap, keep) ==
    LET filled == ProfileAddAll(
                      ProfileAddAll(profile, FirstN(book.bids, ProfileDepth),
                                    "bid"),
                      FirstN(book.asks, ProfileDepth), "ask")
    IN  IF Len(filled) > cap THEN FirstN(filled, keep) ELSE filled

\* _update_volume_profile of both classes: the bids, then the asks, then the
\* cut to the `keep` levels of largest total volume when there are more than
\* `cap` levels
UpdateVolumeProfile(profile, book, cap, keep) ==
    LET filled == ProfileAddAll(
                      ProfileAddAll(profile, FirstN(book.bids, ProfileDepth),
                                    "bid"),
                      FirstN(book.asks, ProfileDepth), "ask")
    IN  IF Len(filled) > cap THEN TopByVolume(filled, keep) ELSE filled

\* WebSocketManager._handle_orderbook_data: the summary appended to the history
WsHandleOrderbookData(spread, imbalance) ==
    /\ stack = "ws"
    /\ read_loop = "ready"
    /\ frames < MaxFrames
    /\ frames' = frames + 1
    /\ next_id' = next_id + 1
    /\ last_frame' = <<[topic |-> "orderbook",
                        data |-> [u |-> next_id, spread |-> spread,
                                  imbalance |-> imbalance]]>>
    /\ extended_orderbook_history' =
           LastN(Append(extended_orderbook_history,
                        [timestamp |-> now, spread |-> spread,
                         imbalance |-> imbalance]),
                 WsMaxOrderbookHistory)
    \* self.orderbook_data = enhanced_orderbook; the strategy is handed the
    \* same dict
    /\ orderbook_data' = <<[bids |-> Book(spread, imbalance).bids,
                            asks |-> Book(spread, imbalance).asks,
                            spread |-> spread, imbalance |-> imbalance,
                            timestamp |-> now]>>
    /\ volume_profile' = UpdateVolumeProfile(volume_profile,
                                             Book(spread, imbalance),
                                             WsVolumeProfileCap,
                                             WsVolumeProfileCap)
    /\ UNCHANGED <<stack, now, kline_data, extended_kline_data, trade_data,
                   strategy_vars, store_vars, sp_vars, history_vars>>
    /\ message_counts' = CountFrame("orderbook")
    /\ UNCHANGED <<ticker_data, strategy_ticker_data, store_orderbook,
                   store_volume_profile>>
    /\ UNCHANGED <<session_vars, eval_vars, snapshot_vars, lock_vars,
                   sink_vars>>

\* the session variables other than the frames sent
session_but_sent == <<main_task, is_connected, reconnect_count, start_call,
                      start_attempt, owner_errors, sleeps, failures,
                      connect_calls, connect_successes, subscribe_ack,
                      has_trade_subscription, websocket, websocket_open,
                      ping_task, live_pings, stop_call, pings_while_busy>>

\* _handle_ticker_data on a frame of topic "tickers.<symbol>": nothing is
\* stored for empty data; otherwise self.ticker_data is rebound to a new dict
\* (symbol, price and timestamp are kept here, the other six fields are built
\* the same way) and the strategy is given the same dict
WsHandleTickerData(ticker_info) ==
    /\ stack = "ws"
    /\ read_loop = "ready"
    /\ frames < MaxFrames
    /\ frames' = frames + 1
    /\ last_frame' = <<[topic |-> "tickers", data |-> ticker_info]>>
    /\ message_counts' = CountFrame("ticker")
    /\ IF ticker_info = <<>>
       THEN UNCHANGED <<ticker_data, strategy_ticker_data>>
       ELSE /\ ticker_data' = <<[symbol |-> ticker_info[1].symbol,
                                 price |-> ticker_info[1].lastPrice,
                                 timestamp |-> now]>>
            /\ strategy_ticker_data' = ticker_data'
    /\ UNCHANGED book_vars
    /\ UNCHANGED <<stack, now, next_id, ws_vars, strategy_vars, store_vars,
                   sp_vars, history_vars, sink_vars>>
    /\ UNCHANGED <<session_vars, eval_vars, snapshot_vars, lock_vars>>

\* a faulty variant of WsHandleUnknownTopic: the frame is counted as a ticker
WsHandleUnknownTopicAsTicker(topic) ==
    /\ stack = "ws"
    /\ read_loop = "ready"
    /\ frames < MaxFrames
    /\ topic \notin {"tickers", "kline", "orderbook", "publicTrade"}
    /\ frames' = frames + 1
    /\ last_frame' = <<[topic |-> topic, data |-> <<>>]>>
    /\ message_counts' = CountFrame("ticker")
    /\ UNCHANGED <<stack, now, next_id, ws_vars, strategy_vars, store_vars,
                   sp_vars, history_vars, sink_vars, ticker_data,
                   strategy_ticker_data, book_vars>>
    /\ UNCHANGED <<session_vars, eval_vars, snapshot_vars, lock_vars>>

\* _handle_message on a decoded frame that is no ping and no subscribe answer
\* and whose topic (given here by its part before the first dot, "" for a
\* frame without topic) starts with none of the four prefixes: it is counted
\* as unknown and logged
WsHandleUnknownTopic(topic) ==
    /\ stack = "ws"
    /\ read_loop = "ready"
    /\ frames < MaxFrames
    /\ topic \notin {"tickers", "kline", "orderbook", "publicTrade"}
    /\ frames' = frames + 1
    /\ last_frame' = <<[topic |-> topic, data |-> <<>>]>>
    /\ message_counts' = CountFrame("unknown")
    /\ UNCHANGED <<stack, now, next_id, ws_vars, strategy_vars, store_vars,
                   sp_vars, history_vars, sink_vars, ticker_data,
                   strategy_ticker_data, book_vars>>
    /\ UNCHANGED <<session_vars, eval_vars, snapshot_vars, lock_vars>>

\* a faulty variant of WsHandlePing: the pong carries no args
WsHandlePingNoArgs(args) ==
    /\ stack = "ws"
    /\ read_loop = "ready"
    /\ frames < MaxFrames
    /\ websocket # 0
    /\ frames' = frames + 1
    /\ last_frame' = <<[topic |-> "", op |-> "ping", data |-> args]>>
    /\ message_counts' = CountFrame("ping")
    /\ sent' = Append(sent, [op |-> "pong", args |-> <<>>])
    /\ UNCHANGED <<stack, now, next_id, ws_vars, strategy_vars, store_vars,
                   sp_vars, history_vars, sink_vars, ticker_data,
                   strategy_ticker_data, book_vars>>
    /\ UNCHANGED <<session_but_sent, eval_vars, snapshot_vars, lock_vars>>

\* _handle_message on a frame with op = "ping" (args is data.get("args", []),
\* <<>> when the frame has none): it is counted, a pong with the same args
\* is sent on self.websocket and the handler returns
WsHandlePing(args) ==
    /\ stack = "ws"
    /\ read_loop = "ready"
    /\ frames < MaxFrames
    /\ websocket # 0
    /\ frames' = frames + 1
    /\ last_frame' = <<[topic |-> "", op |-> "ping", data |-> args]>>
    /\ message_counts' = CountFrame("ping")
    /\ sent' = Append(sent, [op |-> "pong", args |-> args])
    /\ UNCHANGED <<stack, now, next_id, ws_vars, strategy_vars, store_vars,
                   sp_vars, history_vars, sink_vars, ticker_data,
                   strategy_ticker_data, book_vars>>
    /\ UNCHANGED <<session_but_sent, eval_vars, snapshot_vars, lock_vars>>

\* the same frame when self.websocket.send raises (the transport broke after
\* the frame was received): the exception is caught and logged by
\* _handle_message, no pong is sent
WsHandlePingSendFails(args) ==
    /\ stack = "ws"
    /\ read_loop = "ready"
    /\ frames < MaxFrames
    /\ websocket # 0
    /\ frames' = frames + 1
    /\ last_frame' = <<[topic |-> "", op |-> "ping", data |-> args]>>
    /\ message_counts' = CountFrame("ping")
    /\ handler_errors' = handler_errors + 1
    /\ UNCHANGED <<stack, now, next_id, ws_vars, strategy_vars, store_vars,
                   sp_vars, history_vars, read_loop, sink_running,
                   ticker_data, strategy_ticker_data, book_vars>>
    /\ UNCHANGED <<session_vars, eval_vars, snapshot_vars, lock_vars>>

(***************************************************************************)
(* Malformed frames read by _listen_messages                               *)
(***************************************************************************)
\* the text of the frame is not JSON: json.loads raises JSONDecodeError,
\* caught and logged by _listen_messages
WsInvalidJson ==
    /\ stack = "ws"
    /\ read_loop = "ready"
    /\ frames < MaxFrames
    /\ frames' = frames + 1
    /\ last_frame' = <<[topic |-> "", data |-> <<>>, malformed |-> 1]>>
    /\ handler_errors' = handler_errors + 1
    /\ UNCHANGED <<stack, now, next_id, ws_vars, strategy_vars, store_vars,
                   sp_vars, history_vars, read_loop, sink_running>>
    /\ message_counts' = CountTotal
    /\ UNCHANGED <<ticker_data, strategy_ticker_data, book_vars>>
    /\ UNCHANGED <<session_vars, eval_vars, snapshot_vars, lock_vars>>

\* a kline frame whose one candle has a non-numeric price: float() raises
\* while the dict is built, caught and logged by _handle_kline_data
WsHandleKlineDataMalformed(kline_info) ==
    /\ stack = "ws"
    /\ read_loop = "ready"
    /\ frames < MaxFrames
    /\ frames' = frames + 1
    /\ last_frame' = <<[topic |-> "kline", data |-> kline_info, malformed |-> 1]>>
    /\ handler_errors' = handler_errors + 1
    /\ UNCHANGED <<stack, now, next_id, ws_vars, strategy_vars, store_vars,
                   sp_vars, history_vars, read_loop, sink_running>>
    /\ message_counts' = CountFrame("kline")
    /\ UNCHANGED <<ticker_data, strategy_ticker_data, book_vars>>
    /\ UNCHANGED <<session_vars, eval_vars, snapshot_vars, lock_vars>>

\* a publicTrade frame of `n` trades of which trade number `bad` has a
\* non-numeric price: the loop of _handle_trade_data has appended the trades
\* before it when float() raises; the except branch logs, and
\* strategy.update_trades is not reached
WsHandleTradeDataMalformed(n, bad) ==
    /\ stack = "ws"
    /\ read_loop = "ready"
    /\ frames < MaxFrames
    /\ frames' = frames + 1
    /\ next_id' = next_id + n
    /\ last_frame' = <<[topic |-> "publicTrade", data |-> TradeInfos(n),
                        malformed |-> bad]>>
    /\ trade_data' = WsAppendTrades(trade_data, SubSeq(TradeInfos(n), 1, bad - 1))
    /\ handler_errors' = handler_errors + 1
    /\ UNCHANGED <<stack, now, kline_data, extended_kline_data,
                   extended_orderbook_history, strategy_vars, store_vars,
                   sp_vars, history_vars, read_loop, sink_running>>
    /\ message_counts' = CountFrame("trade")
    /\ UNCHANGED <<ticker_data, strategy_ticker_data, book_vars>>
    /\ UNCHANGED <<session_vars, eval_vars, snapshot_vars, lock_vars>>

(***************************************************************************)
(* DataProcessor                                                           *)
(***************************************************************************)
\* DataProcessor._validate_kline on a candle that has every required field
ValidateKline(raw_kline) ==
    /\ raw_kline.low <= raw_kline.open /\ raw_kline.open <= raw_kline.high
    /\ raw_kline.low <= raw_kline.close /\ raw_kline.close <= raw_kline.high

\* PybitWebSocket._extract_kline_data, then DataProcessor.process_kline:
\* <<>> is None
ProcessKline(kline_info) ==
    IF ~ValidateKline(kline_info) THEN <<>>
    ELSE <<[timestamp |-> kline_info.start, open |-> kline_info.open,
            high |-> kline_info.high, low |-> kline_info.low,
            close |-> kline_info.close, volume |-> kline_info.volume,
            confirm |-> kline_info.confirm,
            range |-> kline_info.high - kline_info.low,
            body |-> AbsDiff(kline_info.close, kline_info.open)]>>

(***************************************************************************)
(* MarketDataStore                                                         *)
(***************************************************************************)
\* deque(maxlen=n).append
DequeAppend(d, x, n) == LastN(Append(d, x), n)

ReplaceLast(d, x) == [d EXCEPT ![Len(d)] = x]

\* MarketDataStore.add_kline: the new deque and the returned flag
AddKline(klines, kline) ==
    IF klines # <<>> /\ Last(klines).timestamp = kline.timestamp
    THEN IF ~kline.confirm
         THEN [klines |-> ReplaceLast(klines, kline), success |-> TRUE]
         ELSE [klines |-> klines, success |-> FALSE]
    ELSE IF kline.confirm
    THEN [klines |-> DequeAppend(klines, kline, StoreMaxKlines), success |-> TRUE]
    ELSE IF klines # <<>>
    THEN [klines |-> ReplaceLast(klines, kline), success |-> TRUE]
    ELSE [klines |-> Append(klines, kline), success |-> TRUE]

\* MarketDataStore.add_kline reaches "self._klines.append(kline)"
AddKlineAppends(klines, kline) ==
    /\ ~(klines # <<>> /\ Last(klines).timestamp = kline.timestamp)
    /\ kline.confirm

Max(a, b) == IF a >= b THEN a ELSE b

\* max(recent_highs) and min(recent_lows) of _update_price_levels
MaxHigh(klines) ==
    LET RECURSIVE M(_)
        M(i) == IF i = 1 THEN klines[1].high ELSE Max(klines[i].high, M(i - 1))
    IN  M(Len(klines))

MinLow(klines) ==
    LET RECURSIVE M(_)
        M(i) == IF i = 1 THEN klines[1].low ELSE Min(klines[i].low, M(i - 1))
    IN  M(Len(klines))

PriceLevelWindow == 5
PriceLevelMinKlines == 3
PriceLevelsLimit == 20

\* MarketDataStore._update_price_levels(kline), called by add_kline after
\* the append; klines is self._klines with the candle in it.  list.append
\* changes the list object the dict is bound to; the slice [-20:] makes a
\* new list and binds the dict to it.
PriceLevel(kline, price) ==
    [price |-> price, timestamp |-> kline.timestamp, strength |-> 1,
     touches |-> 1]

UpdatePriceLevels(h, levels, klines, kline) ==
    LET recent_klines == LastN(klines, PriceLevelWindow)
        enough == Len(recent_klines) >= PriceLevelMinKlines
        h1 == IF enough /\ kline.high = MaxHigh(recent_klines)
              THEN [h EXCEPT ![levels.resistance] =
                                 Append(@, PriceLevel(kline, kline.high))]
              ELSE h
        h2 == IF enough /\ kline.low = MinLow(recent_klines)
              THEN [h1 EXCEPT ![levels.support] =
                                  Append(@, PriceLevel(kline, kline.low))]
              ELSE h1
    IN  [heap |-> h2 \o <<LastN(h2[levels.resistance], PriceLevelsLimit),
                          LastN(h2[levels.support], PriceLevelsLimit)>>,
         price_levels |-> [resistance |-> Len(h2) + 1,
                           support |-> Len(h2) + 2]]

\* MarketDataStore._should_save_orderbook_history: the spread changed by more
\* than 5% of the last saved one or the imbalance (in 1/100) by more than 0.1
ShouldSaveOrderbookHistory(history, orderbook) ==
    \/ history = <<>>
    \/ 100 * AbsDiff(orderbook.spread, Last(history).spread)
           > 5 * Last(history).spread
    \/ AbsDiff(orderbook.imbalance, Last(history).imbalance) > 10

\* a faulty variant of GetMarketSummary: every stored candle is handed over
GetMarketSummaryAllKlines(klines, trades) ==
    [recent_klines |-> klines,
     recent_trades |-> LastN(trades, SummaryTrades),
     order_imbalance |-> 0]

\* MarketDataStore.get_market_summary: the entries the signal path reads.
\* The current order book is not kept here; its imbalance is taken as 0,
\* which casts no vote.
GetMarketSummary(klines, trades) ==
    [recent_klines |-> LastN(klines, SummaryKlines),
     recent_trades |-> LastN(trades, SummaryTrades),
     order_imbalance |-> 0]

\* MarketDataStore.get_market_summary: the dict it returns.  list(...)[-n:]
\* makes new lists of the candles and trades; self._price_levels.copy() is
\* a new dict bound to the same two list objects; generated_at is
\* datetime.now().
MarketSummary ==
    [recent_klines |-> LastN(store_klines, SummaryKlines),
     recent_trades |-> LastN(store_trades, SummaryTrades),
     price_levels |-> price_levels,
     data_counts |-> [klines |-> Len(store_klines),
                      trades |-> Len(store_trades),
                      orderbook_history |-> Len(store_orderbook_history)],
     generated_at |-> now]

\* what a holder of the summary reads in it: the lists behind the
\* references are read from the heap
ReadSummary(summary) ==
    [summary EXCEPT !.price_levels =
         [resistance |-> heap[summary.price_levels.resistance],
          support |-> heap[summary.price_levels.support]]]

\* a client calls MarketDataStore.get_market_summary
GetMarketSummaryCall ==
    /\ stack = "mm"
    /\ store_dirty \/ prev_summary = <<>>
    /\ last_summary' = <<MarketSummary>>
    /\ summary_view' = <<ReadSummary(MarketSummary)>>
    /\ prev_summary' = IF store_dirty THEN <<>> ELSE last_summary
    /\ store_dirty' = FALSE
    /\ last_frame' = <<>>
    /\ UNCHANGED <<heap, price_levels>>
    /\ UNCHANGED <<stack, now, frames, next_id, ws_vars, strategy_vars,
                   store_vars, sp_vars, history_vars, sink_vars>>
    /\ UNCHANGED <<session_vars, eval_vars, lock_vars, route_vars>>

(***************************************************************************)
(* SignalProcessor                                                         *)
(***************************************************************************)
\* SignalProcessor._is_signal_cooldown
SpIsSignalCooldown(last_signal_time) ==
    /\ last_signal_time # <<>>
    /\ now - last_signal_time[1] < SIGNAL_COOLDOWN_MINUTES

\* SignalProcessor.validate_signal_conditions: can_generate_signals
ValidateSignalConditions(market_data) ==
    /\ ~(Len(market_data.recent_klines) < MinKlines)
    /\ ~SpIsSignalCooldown(sp_last_signal_time)

\* SignalProcessor.analyze_market_data up to the creation of the signal;
\* `ind` is what calculate_technical_indicators returns for the candles
SpAnalyzeMarketData(market_data, ind) ==
    LET klines == market_data.recent_klines
    IN  IF SpIsSignalCooldown(sp_last_signal_time) THEN CooldownSkip
        ELSE IF klines = <<>> \/ Len(klines) < MinKlines THEN NoSignal
        ELSE LET result ==
                     SpAnalyzeTradingConditions(ind, market_data.order_imbalance,
                         Last(klines).volume, Sizes(market_data.recent_trades))
             IN  [evaluated |-> TRUE, cooldown |-> FALSE,
                  signal |-> IF Emits(result)
                             THEN <<NewSignal(result, ind.current_price, ind)>>
                             ELSE <<>>]

\* a faulty variant of SpRecord: the signal is not appended to the history
SpRecordNoHistory(outcome) ==
    /\ evaluations' = IF outcome.evaluated THEN evaluations + 1 ELSE evaluations
    /\ cooldown_skips' = IF outcome.cooldown THEN cooldown_skips + 1
                          ELSE cooldown_skips
    /\ IF outcome.signal # <<>>
       THEN /\ sp_last_signal_time' = <<now>>
            /\ emitted' = Append(emitted, outcome.signal[1])
            /\ sink_calls' = Append(sink_calls, outcome.signal[1])
            /\ sink_running' = sink_running + 1
            /\ UNCHANGED sp_signals_history
       ELSE UNCHANGED <<sp_signals_history, sp_last_signal_time, emitted,
                        sink_calls, sink_running>>

\* the rest of analyze_market_data: history, last_signal_time, callback
\* (MarketManager._handle_generated_signal schedules the owner's callback)
SpRecord(outcome) ==
    /\ evaluations' = IF outcome.evaluated THEN evaluations + 1 ELSE evaluations
    /\ cooldown_skips' = IF outcome.cooldown THEN cooldown_skips + 1
                          ELSE cooldown_skips
    /\ IF outcome.signal # <<>>
       THEN /\ sp_signals_history' =
                   LastN(Append(sp_signals_history, outcome.signal[1]),
                         SignalsHistoryLimit)
            /\ sp_last_signal_time' = <<now>>
            /\ emitted' = Append(emitted, outcome.signal[1])
            \* _handle_generated_signal: asyncio.create_task(on_signal_callback)
            /\ sink_calls' = Append(sink_calls, outcome.signal[1])
            /\ sink_running' = sink_running + 1
       ELSE UNCHANGED <<sp_signals_history, sp_last_signal_time, emitted,
                        sink_calls, sink_running>>

\* MarketManager._check_for_trading_signals on the store after add_kline
CheckForTradingSignals(klines, ind) ==
    LET market_data == GetMarketSummary(klines, store_trades)
    IN  /\ check_calls' = check_calls + 1
        /\ IF ValidateSignalConditions(market_data)
           THEN SpRecord(SpAnalyzeMarketData(market_data, ind))
           ELSE SpRecord(NoSignal)

(***************************************************************************)
(* MarketManager callbacks                                                 *)
(***************************************************************************)
\* MarketManager._handle_kline
MmHandleKline(kline_info, ind) ==
    LET processed_kline == ProcessKline(kline_info)
        added == AddKline(store_klines, processed_kline[1])
    IN  /\ stack = "mm"
        /\ frames < MaxFrames
        /\ frames' = frames + 1
        /\ last_frame' = <<[topic |-> "kline", data |-> kline_info]>>
        /\ IF processed_kline = <<>>
           THEN UNCHANGED <<store_klines, sp_vars, history_vars, sink_running,
                            heap, price_levels, store_dirty>>
           ELSE /\ store_klines' = added.klines
                /\ store_dirty' = (store_dirty \/ added.success)
                /\ IF AddKlineAppends(store_klines, processed_kline[1])
                   THEN LET updated ==
                                UpdatePriceLevels(heap, price_levels,
                                                  added.klines,
                                                  processed_kline[1])
                        IN  /\ heap' = updated.heap
                            /\ price_levels' = updated.price_levels
                   ELSE UNCHANGED <<heap, price_levels>>
                /\ confirmed_received' =
                       IF kline_info.confirm THEN confirmed_received + 1
                       ELSE confirmed_received
                /\ IF added.success /\ processed_kline[1].confirm
                   THEN CheckForTradingSignals(added.klines, ind)
                   ELSE UNCHANGED <<sp_vars, emitted, sink_calls, evaluations,
                                    check_calls, cooldown_skips, sink_running>>
        /\ UNCHANGED <<stack, now, next_id, ws_vars, strategy_vars, store_trades,
                       store_orderbook_history>>
        /\ UNCHANGED <<last_summary, summary_view, prev_summary>>
        /\ UNCHANGED <<session_vars, eval_vars, lock_vars, route_vars, read_loop,
                       handler_errors>>

\* MarketManager._handle_trades: process_trades, then add_trades
MmHandleTrades(n) ==
    /\ stack = "mm"
    /\ frames < MaxFrames
    /\ frames' = frames + 1
    /\ next_id' = next_id + n
    /\ last_frame' = <<[topic |-> "publicTrade", data |-> TradeInfos(n)]>>
    /\ store_trades' =
           LastN(store_trades \o
                     [i \in 1..n |-> [trade_id |-> TradeInfos(n)[i].id,
                                      size |-> TradeInfos(n)[i].size]],
                 StoreMaxTrades)
    /\ UNCHANGED <<stack, now, ws_vars, strategy_vars, store_klines,
                   store_orderbook_history, sp_vars, history_vars>>
    /\ store_dirty' = TRUE
    /\ UNCHANGED <<heap, price_levels, last_summary, summary_view,
                   prev_summary>>
    /\ UNCHANGED <<session_vars, eval_vars, lock_vars, route_vars, sink_vars>>

\* MarketManager._handle_orderbook: process_orderbook, then update_orderbook
MmHandleOrderbook(spread, imbalance) ==
    LET orderbook == [timestamp |-> next_id, spread |-> spread,
                      imbalance |-> imbalance]
    IN  /\ stack = "mm"
        /\ frames < MaxFrames
        /\ frames' = frames + 1
        /\ next_id' = next_id + 1
        /\ last_frame' = <<[topic |-> "orderbook",
                            data |-> [u |-> next_id, spread |-> spread,
                                      imbalance |-> imbalance]]>>
        /\ store_orderbook_history' =
               IF ShouldSaveOrderbookHistory(store_orderbook_history, orderbook)
               THEN DequeAppend(store_orderbook_history, orderbook,
                                StoreMaxOrderbookHistory)
               ELSE store_orderbook_history
        /\ UNCHANGED <<stack, now, ws_vars, strategy_vars, store_klines,
                       store_trades, sp_vars, history_vars>>
        /\ store_dirty' = TRUE
        /\ UNCHANGED <<heap, price_levels, last_summary, summary_view,
                       prev_summary>>
        \* self._orderbook = orderbook, then _update_volume_profile
        /\ store_orderbook' = <<[bids |-> Book(spread, imbalance).bids,
                                 asks |-> Book(spread, imbalance).asks,
                                 spread |-> spread, imbalance |-> imbalance,
                                 timestamp |-> next_id]>>
        /\ store_volume_profile' =
               UpdateVolumeProfile(store_volume_profile,
                                   Book(spread, imbalance),
                                   StoreVolumeProfileCap,
                                   StoreVolumeProfileKeep)
        /\ UNCHANGED <<message_counts, ticker_data, strategy_ticker_data,
                       orderbook_data, volume_profile>>
        /\ UNCHANGED <<session_vars, eval_vars, lock_vars, sink_vars>>

\* SignalProcessor.analyze_market_data called by a client with MinKlines
\* candles of its own, the last of volume v, and the sizes of its trades
AnalyzeMarketDataCall(v, sizes, ind) ==
    LET market_data ==
            [recent_klines |->
                 [i \in 1..MinKlines |->
                     ProcessKline(GoodKlineInfo(i, IF i = MinKlines THEN v ELSE 1,
                                                TRUE))[1]],
             recent_trades |-> [i \in 1..Len(sizes) |->
                                   [trade_id |-> i, size |-> sizes[i]]],
             order_imbalance |-> 0]
    IN  /\ stack = "mm"
        /\ frames < MaxFrames
        /\ frames' = frames + 1
        /\ last_frame' = <<>>
        /\ SpRecord(SpAnalyzeMarketData(market_data, ind))
        /\ UNCHANGED <<stack, now, next_id, ws_vars, strategy_vars,
                       store_vars, confirmed_received, check_calls>>
        /\ UNCHANGED <<session_vars, eval_vars, snapshot_vars, lock_vars, route_vars,
                       read_loop, handler_errors>>

\* MarketManager.force_market_analysis: analyze_market_data on the summary
\* of the store, without validate_signal_conditions
MmForceMarketAnalysis(ind) ==
    /\ stack = "mm"
    /\ frames < MaxFrames
    /\ frames' = frames + 1
    /\ last_frame' = <<>>
    /\ SpRecord(SpAnalyzeMarketData(GetMarketSummary(store_klines, store_trades),
                                    ind))
    /\ UNCHANGED <<stack, now, next_id, ws_vars, strategy_vars,
                   store_vars, confirmed_received, check_calls>>
    /\ UNCHANGED <<session_vars, eval_vars, snapshot_vars, lock_vars, route_vars,
                   read_loop, handler_errors>>

(***************************************************************************)
(* The signal sink.  The WebSocketManager awaits on_signal_callback inside *)
(* _handle_kline_data; the MarketManager schedules it as a task.           *)
(***************************************************************************)
\* a faulty variant of WsSinkRaises: the exception reaches _main_loop
WsSinkRaisesPropagates ==
    /\ stack = "ws"
    /\ read_loop = "in_sink"
    /\ read_loop' = "ready"
    /\ sink_running' = sink_running - 1
    /\ last_frame' = <<>>
    /\ is_connected' = FALSE
    /\ reconnect_count' = reconnect_count + 1
    /\ main_task' = "sleep"
    /\ handler_errors' = handler_errors + 1
    /\ UNCHANGED <<start_call, start_attempt, owner_errors, sleeps, failures,
                   connect_calls, connect_successes, subscribe_ack, conn_vars>>
    /\ UNCHANGED <<stack, now, frames, next_id, ws_vars, strategy_vars,
                   store_vars, sp_vars, history_vars, eval_vars>>
    /\ UNCHANGED <<snapshot_vars, lock_vars, route_vars>>

\* a variant of WsSinkRaises that takes the signal back when its delivery
\* failed: it leaves the history and the cooldown does not start
WsSinkRaisesRollsBack ==
    /\ stack = "ws"
    /\ read_loop = "in_sink"
    /\ read_loop' = "ready"
    /\ sink_running' = sink_running - 1
    /\ handler_errors' = handler_errors + 1
    /\ last_frame' = <<>>
    /\ strategy_signals_history' =
           SubSeq(strategy_signals_history, 1, Len(strategy_signals_history) - 1)
    /\ strategy_last_signal_time' = <<>>
    /\ UNCHANGED <<strategy_kline_data, strategy_trade_data,
                   strategy_current_indicators>>
    /\ UNCHANGED <<stack, now, frames, next_id, ws_vars,
                   store_vars, sp_vars, history_vars>>
    /\ UNCHANGED <<session_vars, eval_vars, snapshot_vars, lock_vars, route_vars>>

\* on_signal_callback raises: caught by the "except Exception" of
\* _handle_kline_data and logged; the handler returns to the read loop
WsSinkRaises ==
    /\ stack = "ws"
    /\ read_loop = "in_sink"
    /\ read_loop' = "ready"
    /\ sink_running' = sink_running - 1
    /\ handler_errors' = handler_errors + 1
    /\ last_frame' = <<>>
    /\ UNCHANGED <<stack, now, frames, next_id, ws_vars, strategy_vars,
                   store_vars, sp_vars, history_vars>>
    /\ UNCHANGED <<session_vars, eval_vars, snapshot_vars, lock_vars, route_vars>>

\* on_signal_callback returns: the handler goes on and returns
WsSinkReturns ==
    /\ stack = "ws"
    /\ read_loop = "in_sink"
    /\ read_loop' = "ready"
    /\ sink_running' = sink_running - 1
    /\ last_frame' = <<>>
    /\ UNCHANGED <<stack, now, frames, next_id, ws_vars, strategy_vars,
                   store_vars, sp_vars, history_vars, handler_errors>>
    /\ UNCHANGED <<session_vars, eval_vars, snapshot_vars, lock_vars, route_vars>>

\* a task created by _handle_generated_signal completes, by returning or by
\* raising: the event loop keeps the exception, no handler sees it
MmSinkTaskDone ==
    /\ stack = "mm"
    /\ sink_running > 0
    /\ sink_running' = sink_running - 1
    /\ last_frame' = <<>>
    /\ UNCHANGED <<stack, now, frames, next_id, ws_vars, strategy_vars,
                   store_vars, sp_vars, history_vars, read_loop, handler_errors>>
    /\ UNCHANGED <<session_vars, eval_vars, snapshot_vars, lock_vars, route_vars>>

\* time passes
Tick ==
    /\ now < MaxTime
    /\ now' = now + 1
    /\ last_frame' = <<>>
    /\ UNCHANGED <<stack, frames, next_id, ws_vars, strategy_vars,
                   store_vars, sp_vars, history_vars>>
    /\ UNCHANGED <<session_vars, eval_vars, snapshot_vars, lock_vars, route_vars,
                   sink_vars>>

DataInit ==
    /\ stack \in {"ws", "mm"}
    /\ now = 0
    /\ frames = 0
    /\ next_id = 1
    /\ last_frame = <<>>
    /\ kline_data = <<>>
    /\ extended_kline_data = <<>>
    /\ trade_data = <<>>
    /\ extended_orderbook_history = <<>>
    /\ strategy_kline_data = <<>>
    /\ strategy_trade_data = <<>>
    /\ strategy_signals_history = <<>>
    /\ strategy_last_signal_time = <<>>
    /\ strategy_current_indicators = <<>>
    /\ store_klines = <<>>
    /\ store_trades = <<>>
    /\ store_orderbook_history = <<>>
    /\ sp_signals_history = <<>>
    /\ sp_last_signal_time = <<>>
    /\ emitted = <<>>
    /\ sink_calls = <<>>
    /\ evaluations = 0
    /\ confirmed_received = 0
    /\ check_calls = 0
    /\ cooldown_skips = 0
    /\ read_loop = "ready"
    /\ sink_running = 0
    /\ handler_errors = 0
    /\ heap = <<<<>>, <<>>>>
    /\ price_levels = [resistance |-> 1, support |-> 2]
    /\ last_summary = <<>>
    /\ summary_view = <<>>
    /\ prev_summary = <<>>
    /\ store_dirty = TRUE
    /\ lock = "free"
    /\ mm_pc = "idle"
    /\ mm_pending = <<>>
    /\ message_counts = [k \in MessageKinds |-> 0]
    /\ ticker_data = <<>>
    /\ strategy_ticker_data = <<>>
    /\ orderbook_data = <<>>
    /\ volume_profile = <<>>
    /\ store_orderbook = <<>>
    /\ store_volume_profile = <<>>

(***************************************************************************)
(* WebSocketManager.__init__                                               *)
(***************************************************************************)
SessionInit ==
    /\ main_task = "not_started"
    /\ is_connected = FALSE
    /\ reconnect_count = 0
    /\ start_call = "not_called"
    /\ start_attempt = 0
    /\ owner_errors = <<>>
    /\ sleeps = <<>>
    /\ failures = 0
    /\ connect_calls = 0
    /\ connect_successes = 0
    /\ subscribe_ack = "none"
    /\ websocket = 0
    /\ websocket_open = FALSE
    /\ sent = <<>>
    /\ ping_task = "none"
    /\ live_pings = 0
    /\ stop_call = "not_called"
    /\ pings_while_busy = 0

(***************************************************************************)
(* WebSocketManager.start: creates the main task, then polls is_connected  *)
(* up to ten times, one second apart, and raises if it is still False.     *)
(***************************************************************************)
StartBegin ==
    /\ UNCHANGED other_than_session
    /\ start_call = "not_called"
    /\ start_call' = "polling"
    /\ start_attempt' = 0
    /\ main_task' = "connect"
    /\ UNCHANGED <<is_connected, reconnect_count, owner_errors, sleeps,
                   failures, connect_calls, connect_successes, subscribe_ack,
                   conn_vars>>

\* a variant of StartPoll that cancels the main task before it raises
StartPollCancelsMainTask ==
    /\ UNCHANGED other_than_session
    /\ start_call = "polling"
    /\ IF is_connected
       THEN /\ start_call' = "returned"
            /\ UNCHANGED <<start_attempt, owner_errors, main_task>>
       ELSE IF start_attempt < StartPolls
       THEN /\ start_attempt' = start_attempt + 1
            /\ UNCHANGED <<start_call, owner_errors, main_task>>
       ELSE /\ start_call' = "raised"
            /\ owner_errors' = Append(owner_errors, "StartupFailure")
            /\ main_task' = IF main_task = "ended" THEN main_task
                            ELSE "cancelled"
            /\ UNCHANGED start_attempt
    /\ UNCHANGED <<is_connected, reconnect_count, sleeps, failures,
                   connect_calls, connect_successes, subscribe_ack, conn_vars>>

\* a faulty variant of StartPoll: no check after the loop
StartPollNoCheck ==
    /\ UNCHANGED other_than_session
    /\ start_call = "polling"
    /\ IF is_connected \/ start_attempt >= StartPolls
       THEN /\ start_call' = "returned"
            /\ UNCHANGED <<start_attempt, owner_errors>>
       ELSE /\ start_attempt' = start_attempt + 1
            /\ UNCHANGED <<start_call, owner_errors>>
    /\ UNCHANGED <<main_task, is_connected, reconnect_count, sleeps, failures,
                   connect_calls, connect_successes, subscribe_ack, conn_vars>>

\* one iteration of the polling loop, or the check after the loop
StartPoll ==
    /\ UNCHANGED other_than_session
    /\ start_call = "polling"
    /\ IF is_connected
       THEN \* break; "if not self.is_connected" is False: normal return
            /\ start_call' = "returned"
            /\ UNCHANGED <<start_attempt, owner_errors>>
       ELSE IF start_attempt < StartPolls
       THEN \* await asyncio.sleep(1)
            /\ start_attempt' = start_attempt + 1
            /\ UNCHANGED <<start_call, owner_errors>>
       ELSE \* raise Exception(...), logged and re-raised to the caller
            /\ start_call' = "raised"
            /\ owner_errors' = Append(owner_errors, "StartupFailure")
            /\ UNCHANGED start_attempt
    /\ UNCHANGED <<main_task, is_connected, reconnect_count, sleeps, failures,
                   connect_calls, connect_successes, subscribe_ack, conn_vars>>

(***************************************************************************)
(* WebSocketManager._main_loop                                             *)
(***************************************************************************)
\* a faulty variant of MayRetry: one attempt more than configured
MayRetryOnceMore(count) == count <= WS_RECONNECT_ATTEMPTS

\* the test of the except branch: may the loop retry?
MayRetry(count) == count < WS_RECONNECT_ATTEMPTS

\* the delay of the except branch, from the incremented counter
BackoffDelay(count) == WS_RECONNECT_DELAY * count

\* "except Exception" of _main_loop
MainLoopExcept ==
    /\ is_connected' = FALSE
    /\ failures' = failures + 1
    /\ IF MayRetry(reconnect_count)
       THEN /\ reconnect_count' = reconnect_count + 1
            /\ sleeps' = Append(sleeps, BackoffDelay(reconnect_count + 1))
            /\ main_task' = "sleep"
       ELSE \* logged, then break: the task returns normally
            /\ main_task' = "ended"
            /\ UNCHANGED <<reconnect_count, sleeps>>
    /\ UNCHANGED <<start_call, start_attempt, owner_errors, subscribe_ack>>

\* settings.TRADING_PAIR and settings.STRATEGY_TIMEFRAME (settings.py:47-48)
TRADING_PAIR == "BTCUSDT"
STRATEGY_TIMEFRAME == "5m"

\* Settings.get_ticker_subscription, get_kline_subscription and
\* get_orderbook_subscription: the topic strings, by their parts
GetTickerSubscription == [topic |-> "tickers", symbol |-> TRADING_PAIR]

GetKlineSubscription ==
    [topic |-> "kline", interval |-> STRATEGY_TIMEFRAME, symbol |-> TRADING_PAIR]

GetOrderbookSubscription ==
    [topic |-> "orderbook", depth |-> 50, symbol |-> TRADING_PAIR]

\* Settings.get_trade_subscription, which settings.py does not define:
\* "publicTrade.<symbol>", as the comment at the call names it
GetTradeSubscription == [topic |-> "publicTrade", symbol |-> TRADING_PAIR]

\* the subscribe request of _connect_and_subscribe
SubscribeMessage ==
    [op |-> "subscribe",
     args |-> <<GetTickerSubscription, GetKlineSubscription,
                GetOrderbookSubscription, GetTradeSubscription>>]

\* websockets.connect returns a socket, bound to self.websocket
ConnectTransport ==
    /\ UNCHANGED other_than_session
    /\ main_task = "connect"
    /\ main_task' = "subscribe"
    /\ websocket' = (IF websocket = 1 THEN 2 ELSE 1)
    /\ websocket_open' = TRUE
    /\ sent' = <<>>
    /\ UNCHANGED <<is_connected, reconnect_count, start_call, start_attempt,
                   owner_errors, sleeps, failures, connect_calls,
                   connect_successes, subscribe_ack, has_trade_subscription, pings_while_busy,
                   ping_task, live_pings, stop_call>>

\* a faulty variant of StartPingTask: the previous task is not cancelled
StartPingTaskNoCancel ==
    /\ ping_task' = "running"
    /\ live_pings' = live_pings + 1

\* "if self.ping_task and not self.ping_task.done(): self.ping_task.cancel()",
\* then "self.ping_task = asyncio.create_task(self._ping_loop())"
StartPingTask ==
    /\ ping_task' = "running"
    /\ live_pings' = (IF ping_task = "running" THEN live_pings - 1
                      ELSE live_pings) + 1

\* a faulty variant of ConnectOk: the candle buffers start afresh with the
\* new connection
ConnectOkClearsBuffers ==
    /\ kline_data' = <<>>
    /\ extended_kline_data' = <<>>
    /\ UNCHANGED <<trade_data, extended_orderbook_history>>
    /\ UNCHANGED <<eval_vars, env_vars, strategy_vars, store_vars, sp_vars,
                   history_vars, sink_vars, snapshot_vars, lock_vars,
                   route_vars>>
    /\ main_task = "subscribe"
    /\ has_trade_subscription
    /\ connect_successes < MaxConnects
    /\ connect_calls' = connect_calls + 1
    /\ connect_successes' = connect_successes + 1
    /\ sent' = Append(sent, SubscribeMessage)
    /\ StartPingTask
    /\ is_connected' = TRUE
    /\ reconnect_count' = 0
    /\ failures' = 0
    /\ sleeps' = <<>>
    /\ main_task' = "listen"
    /\ subscribe_ack' = "none"
    /\ UNCHANGED <<start_call, start_attempt, owner_errors>>
    /\ UNCHANGED <<has_trade_subscription, pings_while_busy, websocket,
                   websocket_open, stop_call>>

\* a faulty variant of ConnectOk: reconnect_count is not reset
ConnectOkNoReset ==
    /\ UNCHANGED other_than_session
    /\ main_task = "subscribe"
    /\ has_trade_subscription
    /\ connect_successes < MaxConnects
    /\ connect_calls' = connect_calls + 1
    /\ connect_successes' = connect_successes + 1
    /\ sent' = Append(sent, SubscribeMessage)
    /\ StartPingTask
    /\ is_connected' = TRUE
    /\ failures' = 0
    /\ sleeps' = <<>>
    /\ main_task' = "listen"
    /\ subscribe_ack' = "none"
    /\ UNCHANGED <<reconnect_count, start_call, start_attempt, owner_errors>>
    /\ UNCHANGED <<has_trade_subscription, pings_while_busy, websocket, websocket_open,
                   stop_call>>

\* the rest of _connect_and_subscribe returns normally: the subscribe
\* request is built and sent, the ping task is started, the session is
\* marked connected
ConnectOk ==
    /\ UNCHANGED other_than_session
    /\ main_task = "subscribe"
    /\ has_trade_subscription
    /\ connect_successes < MaxConnects
    /\ connect_calls' = connect_calls + 1
    /\ connect_successes' = connect_successes + 1
    /\ sent' = Append(sent, SubscribeMessage)
    /\ StartPingTask
    /\ is_connected' = TRUE
    /\ reconnect_count' = 0
    /\ failures' = 0
    /\ sleeps' = <<>>
    /\ main_task' = "listen"
    \* no answer to the subscribe request is awaited
    /\ subscribe_ack' = "none"
    /\ UNCHANGED <<start_call, start_attempt, owner_errors>>
    /\ UNCHANGED <<has_trade_subscription, pings_while_busy, websocket, websocket_open,
                   stop_call>>

\* _connect_and_subscribe raises, re-raised to the loop: websockets.connect
\* failed, or, with the socket connected and the subscribe request built,
\* the send failed because the connection was lost, which leaves the socket
\* closed
ConnectFail ==
    /\ UNCHANGED other_than_session
    /\ \/ main_task = "connect"
       \/ main_task = "subscribe" /\ has_trade_subscription
    /\ connect_calls' = connect_calls + 1
    /\ websocket_open' = IF main_task = "subscribe" THEN FALSE
                         ELSE websocket_open
    /\ UNCHANGED <<connect_successes, has_trade_subscription, websocket, sent,
                   ping_task, live_pings, stop_call, pings_while_busy>>
    /\ MainLoopExcept

\* with the socket connected, building the subscribe request raises
\* AttributeError at settings.get_trade_subscription(), which the Settings
\* class does not have: nothing is sent, the exception is logged and
\* re-raised to the loop, and the socket is left as it is, open
SubscribeRaisesAttributeError ==
    /\ UNCHANGED other_than_session
    /\ main_task = "subscribe"
    /\ ~has_trade_subscription
    /\ connect_calls' = connect_calls + 1
    /\ UNCHANGED connect_successes
    /\ UNCHANGED conn_vars
    /\ MainLoopExcept

\* _listen_messages raises (the socket failed while being read)
ListenFail ==
    /\ UNCHANGED other_than_session
    /\ main_task = "listen"
    /\ read_loop = "ready"
    /\ websocket_open' = FALSE
    /\ UNCHANGED <<connect_calls, connect_successes, has_trade_subscription, pings_while_busy,
                   websocket, sent, ping_task, live_pings, stop_call>>
    /\ MainLoopExcept

\* _listen_messages returns: the peer closed the stream normally; the loop
\* goes straight back to _connect_and_subscribe
ListenEnd ==
    /\ UNCHANGED other_than_session
    /\ main_task = "listen"
    /\ read_loop = "ready"
    /\ main_task' = "connect"
    /\ websocket_open' = FALSE
    /\ UNCHANGED <<is_connected, reconnect_count, start_call, start_attempt,
                   owner_errors, sleeps, failures, connect_calls,
                   connect_successes, subscribe_ack, has_trade_subscription, pings_while_busy,
                   websocket, sent, ping_task, live_pings, stop_call>>

\* asyncio.sleep(delay) of the except branch completes
SleepDone ==
    /\ UNCHANGED other_than_session
    /\ main_task = "sleep"
    /\ main_task' = "connect"
    /\ UNCHANGED <<is_connected, reconnect_count, start_call, start_attempt,
                   owner_errors, sleeps, failures, connect_calls,
                   connect_successes, subscribe_ack, conn_vars>>

\* _handle_message on the answer to the subscribe request
\* ({"op": "subscribe", "success": ...}): it is logged, as information or
\* as an error, and the handler returns
WsHandleSubscribeAck(success) ==
    /\ message_counts' = CountFrame("subscribe")
    /\ UNCHANGED <<eval_vars, env_vars, ws_vars, strategy_vars, store_vars,
                   sp_vars, history_vars, sink_vars, snapshot_vars, lock_vars,
                   ticker_data, strategy_ticker_data, book_vars>>
    /\ main_task = "listen"
    /\ read_loop = "ready"
    /\ subscribe_ack = "none"
    /\ subscribe_ack' = IF success THEN "ok" ELSE "failed"
    /\ UNCHANGED <<main_task, is_connected, reconnect_count, start_call,
                   start_attempt, owner_errors, sleeps, failures,
                   connect_calls, connect_successes, conn_vars>>

(***************************************************************************)
(* WebSocketManager._ping_loop, one task per successful connect:           *)
(*     while self.is_connected:                                            *)
(*         try: sleep(20); if websocket and not websocket.closed: send ping*)
(*         except Exception: log; break                                    *)
(* One step is one turn of the loop, from the end of the sleep to the next *)
(* test of is_connected.  The task runs beside the read loop: its sleep    *)
(* ends whatever the read loop is doing.                                   *)
(***************************************************************************)
PingsSent == Cardinality({i \in DOMAIN sent : sent[i].op = "ping"})

CanSendPing == websocket # 0 /\ websocket_open

\* a faulty variant of PingSend: the sleep ends only between two frames
PingSendBetweenFrames ==
    /\ ping_task = "running"
    /\ read_loop = "ready"
    /\ CanSendPing => PingsSent < MaxPings
    /\ IF CanSendPing
       THEN /\ sent' = Append(sent, [op |-> "ping", args |-> <<now>>])
            /\ pings_while_busy' = pings_while_busy
       ELSE UNCHANGED <<sent, pings_while_busy>>
    /\ IF is_connected
       THEN UNCHANGED <<ping_task, live_pings>>
       ELSE /\ ping_task' = "done"
            /\ live_pings' = live_pings - 1
    /\ last_frame' = <<>>
    /\ UNCHANGED <<main_task, is_connected, reconnect_count, start_call,
                   start_attempt, owner_errors, sleeps, failures,
                   connect_calls, connect_successes, subscribe_ack,
                   has_trade_subscription, websocket, websocket_open,
                   stop_call>>
    /\ UNCHANGED <<eval_vars, stack, now, frames, next_id, ws_vars,
                   strategy_vars, store_vars, sp_vars, history_vars,
                   sink_vars, snapshot_vars, lock_vars, route_vars>>

PingSend ==
    /\ ping_task = "running"
    /\ CanSendPing => PingsSent < MaxPings
    /\ IF CanSendPing
       THEN /\ sent' = Append(sent, [op |-> "ping", args |-> <<now>>])
            /\ pings_while_busy' = IF read_loop = "in_sink"
                                   THEN pings_while_busy + 1
                                   ELSE pings_while_busy
       ELSE UNCHANGED <<sent, pings_while_busy>>
    /\ IF is_connected
       THEN UNCHANGED <<ping_task, live_pings>>
       ELSE /\ ping_task' = "done"
            /\ live_pings' = live_pings - 1
    /\ last_frame' = <<>>
    /\ UNCHANGED <<main_task, is_connected, reconnect_count, start_call,
                   start_attempt, owner_errors, sleeps, failures,
                   connect_calls, connect_successes, subscribe_ack,
                   has_trade_subscription, websocket, websocket_open,
                   stop_call>>
    /\ UNCHANGED <<eval_vars, stack, now, frames, next_id, ws_vars,
                   strategy_vars, store_vars, sp_vars, history_vars,
                   sink_vars, snapshot_vars, lock_vars, route_vars>>

\* the send of the ping raises (the socket is not marked closed, but the
\* transport no longer takes the frame): the exception is logged and the
\* loop is left, so the task ends; nothing else is touched
PingSendFails ==
    /\ ping_task = "running"
    /\ CanSendPing
    /\ ping_task' = "done"
    /\ live_pings' = live_pings - 1
    /\ last_frame' = <<>>
    /\ UNCHANGED <<main_task, is_connected, reconnect_count, start_call,
                   start_attempt, owner_errors, sleeps, failures,
                   connect_calls, connect_successes, subscribe_ack,
                   has_trade_subscription, websocket, websocket_open, sent,
                   stop_call, pings_while_busy>>
    /\ UNCHANGED <<eval_vars, stack, now, frames, next_id, ws_vars,
                   strategy_vars, store_vars, sp_vars, history_vars,
                   sink_vars, snapshot_vars, lock_vars, route_vars>>

(***************************************************************************)
(* WebSocketManager.stop, called once by the owner of a started session:   *)
(* is_connected = False, the main task and the ping task are cancelled if  *)
(* not done, the socket is closed.  Task.cancel() raises CancelledError at *)
(* the await the task is suspended in; CancelledError is not an Exception  *)
(* (Python 3.8 and later), so no "except Exception" of the session catches *)
(* it and the task ends there.                                             *)
(***************************************************************************)
\* a faulty variant of Stop: the main task is left running
StopNoCancel ==
    /\ start_call # "not_called"
    /\ stop_call = "not_called"
    /\ stop_call' = main_task
    /\ is_connected' = FALSE
    /\ ping_task' = IF ping_task = "running" THEN "cancelled" ELSE ping_task
    /\ live_pings' = IF ping_task = "running" THEN live_pings - 1
                     ELSE live_pings
    /\ websocket_open' = FALSE
    /\ UNCHANGED <<main_task, reconnect_count, start_call, start_attempt,
                   owner_errors, sleeps, failures, connect_calls,
                   connect_successes, subscribe_ack, has_trade_subscription, pings_while_busy,
                   websocket, sent>>
    /\ UNCHANGED other_than_session

Stop ==
    /\ start_call # "not_called"
    /\ stop_call = "not_called"
    /\ stop_call' = main_task
    /\ is_connected' = FALSE
    /\ main_task' = IF main_task \in {"not_started", "ended"} THEN main_task
                    ELSE "cancelled"
    /\ ping_task' = IF ping_task = "running" THEN "cancelled" ELSE ping_task
    /\ live_pings' = IF ping_task = "running" THEN live_pings - 1
                     ELSE live_pings
    /\ websocket_open' = FALSE
    \* a handler suspended in the signal callback is cancelled with the task
    /\ read_loop' = "ready"
    /\ sink_running' = IF read_loop = "in_sink" THEN sink_running - 1
                       ELSE sink_running
    /\ last_frame' = <<>>
    /\ UNCHANGED <<reconnect_count, start_call, start_attempt, owner_errors,
                   sleeps, failures, connect_calls, connect_successes,
                   subscribe_ack, has_trade_subscription, pings_while_busy, websocket, sent>>
    /\ UNCHANGED <<eval_vars, stack, now, frames, next_id, ws_vars,
                   strategy_vars, store_vars, sp_vars, history_vars,
                   handler_errors, snapshot_vars, lock_vars, route_vars>>

SessionNext ==
    \/ StartBegin
    \/ StartPoll
    \/ ConnectTransport
    \/ ConnectOk
    \/ \E success \in BOOLEAN : WsHandleSubscribeAck(success)
    \/ ConnectFail
    \/ SubscribeRaisesAttributeError
    \/ ListenFail
    \/ ListenEnd
    \/ SleepDone
    \/ Stop

(***************************************************************************)
(* TelegramBot._perform_ai_market_analysis (telegram_bot/bot.py:474-589).  *)
(* Each call is a coroutine; the calls interleave at their awaits.  The    *)
(* analyzer is initialised and OpenAI is configured.                       *)
(***************************************************************************)
\* TelegramBot._is_analysis_cooldown
IsAnalysisCooldown ==
    /\ ~(last_ai_analysis = <<>> \/ AI_ANALYSIS_COOLDOWN_MINUTES = 0)
    /\ now - last_ai_analysis[1] < AI_ANALYSIS_COOLDOWN_MINUTES

\* positions between the assignment of ai_analysis_in_progress = True and
\* the end of the call
AiRunning == {"announce", "analyze", "report"}

\* the call up to its first await: the cooldown test, the test of the flag,
\* then the flag and the time are set and the start message is being sent
AiBegin(r) ==
    /\ ai_pc[r] = "idle"
    /\ IF IsAnalysisCooldown
       THEN /\ ai_pc' = [ai_pc EXCEPT ![r] = "reply_cooldown"]
            /\ UNCHANGED <<ai_analysis_in_progress, last_ai_analysis>>
       ELSE IF ai_analysis_in_progress
       THEN /\ ai_pc' = [ai_pc EXCEPT ![r] = "reply_busy"]
            /\ UNCHANGED <<ai_analysis_in_progress, last_ai_analysis>>
       ELSE /\ ai_analysis_in_progress' = TRUE
            /\ last_ai_analysis' = <<now>>
            /\ ai_pc' = [ai_pc EXCEPT ![r] = "announce"]
    /\ UNCHANGED <<analyze_calls, eval_input, eval_result, session_vars,
                   data_vars>>

\* the reply of a refused call was sent (or its send raised): return, and
\* the finally clause of the call runs
AiRefusedReturns(r) ==
    /\ ai_pc[r] \in {"reply_cooldown", "reply_busy"}
    /\ ai_pc' = [ai_pc EXCEPT ![r] = IF ai_pc[r] = "reply_busy"
                                     THEN "refused_busy"
                                     ELSE "refused_cooldown"]
    /\ ai_analysis_in_progress' = FALSE
    /\ UNCHANGED <<last_ai_analysis, analyze_calls, eval_input, eval_result,
                   session_vars, data_vars>>

\* the start message was sent: analyze_market is called and awaited
AiAnalyzeMarket(r) ==
    /\ ai_pc[r] = "announce"
    /\ ai_pc' = [ai_pc EXCEPT ![r] = "analyze"]
    /\ analyze_calls' = analyze_calls + 1
    /\ UNCHANGED <<ai_analysis_in_progress, last_ai_analysis, eval_input,
                   eval_result, session_vars, data_vars>>

\* analyze_market returned: the results are being sent
AiAnalyzeReturns(r) ==
    /\ ai_pc[r] = "analyze"
    /\ ai_pc' = [ai_pc EXCEPT ![r] = "report"]
    /\ UNCHANGED <<ai_analysis_in_progress, last_ai_analysis, analyze_calls,
                   eval_input, eval_result, session_vars, data_vars>>

\* the results were sent, or an await of the call raised and the except
\* clause sent its message: the finally clause runs
AiFinish(r) ==
    /\ ai_pc[r] \in AiRunning
    /\ ai_pc' = [ai_pc EXCEPT ![r] = "done"]
    /\ ai_analysis_in_progress' = FALSE
    /\ UNCHANGED <<last_ai_analysis, analyze_calls, eval_input, eval_result,
                   session_vars, data_vars>>

AnalysisNext ==
    \/ \E r \in 1..MaxRequests : AiBegin(r)
    \/ \E r \in 1..MaxRequests : AiRefusedReturns(r)
    \/ \E r \in 1..MaxRequests : AiAnalyzeMarket(r)
    \/ \E r \in 1..MaxRequests : AiAnalyzeReturns(r)
    \/ \E r \in 1..MaxRequests : AiFinish(r)

\* the state after construction, of either object graph, with the Settings
\* of settings.py
Init == SessionInit /\ EvalIdle /\ DataInit /\ has_trade_subscription = FALSE

\* the state after construction of the WebSocketManager.  With the Settings
\* of settings.py every _connect_and_subscribe raises AttributeError at line
\* 166, after the socket is connected; the session is also run with a
\* Settings that has the method, where the rest of _connect_and_subscribe
\* is reached.
InitWs ==
    /\ SessionInit /\ EvalIdle /\ DataInit
    /\ stack = "ws"
    /\ has_trade_subscription \in BOOLEAN

SpecSession == InitWs /\ [][SessionNext]_vars

\* the AI analysis requests on their own
SpecAnalysis == InitWs /\ [][AnalysisNext]_vars

\* the rule functions on their own
SpecRules == InitWs /\ [][Evaluate]_vars

\* the indicator functions on their own
SpecIndicators == InitWs /\ [][ComputeIndicators]_vars

\* the read loop of a live session: _listen_messages hands each frame to its
\* handler while the main task is in _listen_messages
IngestKlines == {GoodKlineInfo(1, 1, c) : c \in BOOLEAN}

IngestNext ==
    \/ StartBegin
    \/ ConnectTransport
    \/ ConnectOk
    \/ ListenFail
    \/ SleepDone
    \/ \E k \in IngestKlines, ind \in {IndNeutral, IndOversold} :
           main_task = "listen" /\ WsHandleKlineData(k, ind)
    \/ \E n \in {1, 2} : main_task = "listen" /\ WsHandleTradeData(n)
    \/ main_task = "listen" /\ WsInvalidJson
    \/ \E k \in IngestKlines :
           main_task = "listen" /\ WsHandleKlineDataMalformed(k)
    \/ \E n \in {1, 2}, bad \in {1, 2} :
           main_task = "listen" /\ bad <= n /\ WsHandleTradeDataMalformed(n, bad)
    \/ WsSinkReturns
    \/ WsSinkRaises

SpecIngest == InitWs /\ [][IngestNext]_vars

\* the session with its ping task and the read loop handling candles, some of
\* which make a signal that is handed to the signal sink
HeartbeatNext ==
    \/ StartBegin
    \/ ConnectTransport
    \/ ConnectOk
    \/ ConnectFail
    \/ SubscribeRaisesAttributeError
    \/ ListenFail
    \/ ListenEnd
    \/ SleepDone
    \/ Stop
    \/ PingSend
    \/ PingSendFails
    \/ main_task = "listen"
           /\ WsHandleKlineData(GoodKlineInfo(1, 1, TRUE), IndOversold)
    \/ WsSinkReturns
    \/ WsSinkRaises

SpecHeartbeat == InitWs /\ [][HeartbeatNext]_vars

\* the read loop of a connected session receiving frames of every kind
RouteArgs == {<<>>, <<1>>, <<2>>}

RouteTickers == {<<>>} \cup
                {<<[symbol |-> TRADING_PAIR, lastPrice |-> p]>> : p \in {1, 2}}

RouteNext ==
    \/ StartBegin
    \/ ConnectTransport
    \/ ConnectOk
    \/ \E success \in BOOLEAN : WsHandleSubscribeAck(success)
    \/ \E args \in RouteArgs : main_task = "listen" /\ WsHandlePing(args)
    \/ \E args \in RouteArgs :
           main_task = "listen" /\ WsHandlePingSendFails(args)
    \/ \E t \in RouteTickers : main_task = "listen" /\ WsHandleTickerData(t)
    \/ \E k \in IngestKlines :
           main_task = "listen" /\ WsHandleKlineData(k, IndNeutral)
    \/ \E sp \in {1, 2} : main_task = "listen" /\ WsHandleOrderbookData(sp, 0)
    \/ main_task = "listen" /\ WsHandleTradeData(1)
    \/ \E topic \in {"", "ticker", "liquidation"} :
           main_task = "listen" /\ WsHandleUnknownTopic(topic)
    \/ main_task = "listen" /\ WsInvalidJson

SpecRoute == InitWs /\ [][RouteNext]_vars

\* the signal path of both stacks, with three indicator outcomes and the
\* clock.  The WebSocketManager and the BaseStrategy never read the period of
\* a candle, only its volume and its confirm flag; the MarketDataStore reads
\* the period and the flag.
SignalKlines == {GoodKlineInfo(1, v, c) : v \in {1, 9}, c \in BOOLEAN}

PeriodKlines == {GoodKlineInfo(ts, 1, c) : ts \in {1, 2}, c \in BOOLEAN}

SignalIndicators == {IndNeutral, IndOversold, IndMacdBuy}

Next ==
    \/ \E k \in SignalKlines, ind \in SignalIndicators : WsHandleKlineData(k, ind)
    \/ \E k \in PeriodKlines, ind \in SignalIndicators : MmHandleKline(k, ind)
    \/ \E v \in {1, 9}, sizes \in TradeCases, ind \in SignalIndicators :
           AnalyzeMarketDataCall(v, sizes, ind)
    \/ WsSinkReturns
    \/ WsSinkRaises
    \/ MmSinkTaskDone
    \/ Tick

Spec == Init /\ [][Next]_vars

\* signals and their delivery: the WebSocketManager with and without a
\* signal callback, the SignalProcessor called with enough candles, and the
\* outcomes of the sink
DeliveryNext ==
    \/ \E k \in SignalKlines, ind \in SignalIndicators : WsHandleKlineData(k, ind)
    \/ \E k \in SignalKlines, ind \in SignalIndicators :
           WsHandleKlineDataNoCallback(k, ind)
    \/ \E v \in {1, 9}, sizes \in TradeCases, ind \in SignalIndicators :
           AnalyzeMarketDataCall(v, sizes, ind)
    \/ WsSinkReturns
    \/ WsSinkRaises
    \/ MmSinkTaskDone
    \/ Tick

SpecDelivery == Init /\ [][DeliveryNext]_vars

\* the buffers of both stacks: well-formed and malformed candles, trades and
\* order-book updates; the indicators cast no vote
StoreKlines ==
    PeriodKlines
    \cup {BadKlineInfo(ts, 1, TRUE) : ts \in {1, 2}}

StoreNext ==
    \/ \E k \in StoreKlines : WsHandleKlineData(k, IndNeutral)
    \/ \E n \in {1, 2} : WsHandleTradeData(n)
    \/ \E spread \in {10, 20}, imbalance \in {0, 20} :
           WsHandleOrderbookData(spread, imbalance)
    \/ \E k \in StoreKlines : MmHandleKline(k, IndNeutral)
    \/ \E n \in {1, 2} : MmHandleTrades(n)
    \/ \E spread \in {10, 20}, imbalance \in {0, 20} :
           MmHandleOrderbook(spread, imbalance)

SpecStore == Init /\ [][StoreNext]_vars

\* the MarketManager stack
InitMm == Init /\ stack = "mm"

\* the MarketManager with its store and its SignalProcessor, fed by its
\* provider only
PipelineNext ==
    \/ \E k \in PeriodKlines, ind \in SignalIndicators : MmHandleKline(k, ind)
    \/ \E n \in {1, 2} : MmHandleTrades(n)
    \/ \E ind \in SignalIndicators : MmForceMarketAnalysis(ind)
    \/ Tick

SpecPipeline == InitMm /\ [][PipelineNext]_vars

(***************************************************************************)
(* MarketManager._handle_kline step by step, with MarketDataStore._lock    *)
(* (a threading.Lock taken by "with self._lock:" in every method of the    *)
(* store) and a second thread that reads the store.                        *)
(***************************************************************************)
\* _handle_kline is called with a frame: process_kline
MmKlineReceive(kline_info, ind) ==
    /\ stack = "mm"
    /\ mm_pc = "idle"
    /\ frames < MaxFrames
    /\ frames' = frames + 1
    /\ last_frame' = <<[topic |-> "kline", data |-> kline_info]>>
    /\ IF ProcessKline(kline_info) = <<>>
       THEN UNCHANGED <<mm_pc, mm_pending>>
       ELSE /\ mm_pc' = "add_kline_call"
            /\ mm_pending' = <<[kline |-> ProcessKline(kline_info)[1],
                                ind |-> ind]>>
    /\ UNCHANGED <<stack, now, next_id, ws_vars, strategy_vars, store_vars,
                   sp_vars, history_vars, sink_vars, snapshot_vars, lock>>
    /\ UNCHANGED <<session_vars, eval_vars, route_vars>>

\* add_kline: "with self._lock:" is entered
MmAddKlineEnter ==
    /\ mm_pc = "add_kline_call"
    /\ lock = "free"
    /\ lock' = "handler"
    /\ mm_pc' = "add_kline"
    /\ last_frame' = <<>>
    /\ UNCHANGED <<stack, now, frames, next_id, ws_vars, strategy_vars,
                   store_vars, sp_vars, history_vars, sink_vars,
                   snapshot_vars, mm_pending>>
    /\ UNCHANGED <<session_vars, eval_vars, route_vars>>

\* add_kline: the body of the with block and the return, which leaves the
\* block; back in _handle_kline, the tests of success and confirm
MmAddKlineExit ==
    LET kline == mm_pending[1].kline
        added == AddKline(store_klines, kline)
    IN  /\ mm_pc = "add_kline"
        /\ lock' = "free"
        /\ store_klines' = added.klines
        /\ store_dirty' = (store_dirty \/ added.success)
        /\ confirmed_received' =
               IF kline.confirm THEN confirmed_received + 1
               ELSE confirmed_received
        /\ IF AddKlineAppends(store_klines, kline)
           THEN LET updated == UpdatePriceLevels(heap, price_levels,
                                                 added.klines, kline)
                IN  /\ heap' = updated.heap
                    /\ price_levels' = updated.price_levels
           ELSE UNCHANGED <<heap, price_levels>>
        /\ IF added.success /\ kline.confirm
           THEN mm_pc' = "summary_call" /\ UNCHANGED mm_pending
           ELSE mm_pc' = "idle" /\ mm_pending' = <<>>
        /\ last_frame' = <<>>
        /\ UNCHANGED <<stack, now, frames, next_id, ws_vars, strategy_vars,
                       store_trades, store_orderbook_history, sp_vars,
                       emitted, sink_calls, evaluations, check_calls,
                       cooldown_skips, sink_vars, last_summary, summary_view,
                       prev_summary>>
        /\ UNCHANGED <<session_vars, eval_vars, route_vars>>

\* a faulty variant of MmAddKlineRaises: the lock is taken and released by
\* hand, and the release is skipped by the exception
MmAddKlineRaisesKeepsLock ==
    /\ mm_pc = "add_kline"
    /\ mm_pc' = "idle"
    /\ mm_pending' = <<>>
    /\ handler_errors' = handler_errors + 1
    /\ last_frame' = <<>>
    /\ UNCHANGED <<stack, now, frames, next_id, ws_vars, strategy_vars,
                   store_vars, sp_vars, history_vars, read_loop, sink_running,
                   snapshot_vars, lock>>
    /\ UNCHANGED <<session_vars, eval_vars, route_vars>>

\* add_kline: the body of the with block raises; the block releases the
\* lock on the way out, "except Exception" logs the error and add_kline
\* returns False, on which _handle_kline returns
MmAddKlineRaises ==
    /\ mm_pc = "add_kline"
    /\ lock' = "free"
    /\ mm_pc' = "idle"
    /\ mm_pending' = <<>>
    /\ handler_errors' = handler_errors + 1
    /\ last_frame' = <<>>
    /\ UNCHANGED <<stack, now, frames, next_id, ws_vars, strategy_vars,
                   store_vars, sp_vars, history_vars, read_loop, sink_running,
                   snapshot_vars>>
    /\ UNCHANGED <<session_vars, eval_vars, route_vars>>

\* _check_for_trading_signals: get_market_summary enters "with self._lock:"
MmSummaryEnter ==
    /\ mm_pc = "summary_call"
    /\ lock = "free"
    /\ lock' = "handler"
    /\ mm_pc' = "summary"
    /\ last_frame' = <<>>
    /\ UNCHANGED <<stack, now, frames, next_id, ws_vars, strategy_vars,
                   store_vars, sp_vars, history_vars, sink_vars,
                   snapshot_vars, mm_pending>>
    /\ UNCHANGED <<session_vars, eval_vars, route_vars>>

\* a faulty variant of MmSummaryExit: the lock is still held when the
\* summary is handed to the signal rules
MmSummaryExitKeepsLock ==
    /\ mm_pc = "summary"
    /\ mm_pc' = "evaluate"
    /\ last_frame' = <<>>
    /\ UNCHANGED <<stack, now, frames, next_id, ws_vars, strategy_vars,
                   store_vars, sp_vars, history_vars, sink_vars,
                   snapshot_vars, mm_pending, lock>>
    /\ UNCHANGED <<session_vars, eval_vars, route_vars>>

\* get_market_summary returns from inside the with block, which releases
\* the lock
MmSummaryExit ==
    /\ mm_pc = "summary"
    /\ lock' = "free"
    /\ mm_pc' = "evaluate"
    /\ last_frame' = <<>>
    /\ UNCHANGED <<stack, now, frames, next_id, ws_vars, strategy_vars,
                   store_vars, sp_vars, history_vars, sink_vars,
                   snapshot_vars, mm_pending>>
    /\ UNCHANGED <<session_vars, eval_vars, route_vars>>

\* the rest of _check_for_trading_signals: validate_signal_conditions,
\* analyze_market_data and, for a signal, _handle_generated_signal
MmEvaluate ==
    /\ mm_pc = "evaluate"
    /\ CheckForTradingSignals(store_klines, mm_pending[1].ind)
    /\ mm_pc' = "idle"
    /\ mm_pending' = <<>>
    /\ last_frame' = <<>>
    /\ UNCHANGED <<stack, now, frames, next_id, ws_vars, strategy_vars,
                   store_vars, confirmed_received, read_loop, handler_errors,
                   snapshot_vars, lock>>
    /\ UNCHANGED <<session_vars, eval_vars, route_vars>>

\* another thread enters a "with self._lock:" block of the store
\* (get_klines, get_ticker, get_stats, ...)
ReaderAcquire ==
    /\ stack = "mm"
    /\ lock = "free"
    /\ lock' = "reader"
    /\ last_frame' = <<>>
    /\ UNCHANGED <<stack, now, frames, next_id, ws_vars, strategy_vars,
                   store_vars, sp_vars, history_vars, sink_vars,
                   snapshot_vars, mm_pc, mm_pending>>
    /\ UNCHANGED <<session_vars, eval_vars, route_vars>>

\* and leaves it
ReaderRelease ==
    /\ lock = "reader"
    /\ lock' = "free"
    /\ last_frame' = <<>>
    /\ UNCHANGED <<stack, now, frames, next_id, ws_vars, strategy_vars,
                   store_vars, sp_vars, history_vars, sink_vars,
                   snapshot_vars, mm_pc, mm_pending>>
    /\ UNCHANGED <<session_vars, eval_vars, route_vars>>

LockNext ==
    \/ \E k \in StoreKlines : MmKlineReceive(k, IndNeutral)
    \/ MmAddKlineEnter
    \/ MmAddKlineExit
    \/ MmSummaryEnter
    \/ MmSummaryExit
    \/ MmEvaluate
    \/ ReaderAcquire
    \/ ReaderRelease

SpecLock == InitMm /\ [][LockNext]_vars

\* the same two threads, with the exception path of add_kline, under a fair
\* scheduler: a thread that can run does run, a thread inside a with block
\* leaves it, and a thread waiting for a lock that is released again and
\* again gets it in the end
LockFairNext ==
    \/ LockNext
    \/ MmAddKlineRaises

LockFairness ==
    /\ WF_vars(MmAddKlineExit \/ MmAddKlineRaises)
    /\ WF_vars(MmSummaryExit)
    /\ WF_vars(MmEvaluate)
    /\ WF_vars(ReaderRelease)
    /\ SF_vars(MmAddKlineEnter)
    /\ SF_vars(MmSummaryEnter)

SpecLockFair == InitMm /\ [][LockFairNext]_vars /\ LockFairness

\* a client reads market summaries while frames arrive
SnapshotNext ==
    \/ \E k \in PeriodKlines : MmHandleKline(k, IndNeutral)
    \/ MmHandleTrades(1)
    \/ GetMarketSummaryCall
    \/ Tick

SpecSnapshot == InitMm /\ [][SnapshotNext]_vars

\* the step handled an inbound frame
FrameHandled == frames' = frames + 1 /\ last_frame' # <<>>

(***************************************************************************)
(* C1: after a signal is emitted at time t no further signal is appended   *)
(* to a signal history or handed to the signal sink before                 *)
(* t + SIGNAL_COOLDOWN_MINUTES, whatever the rules say of later confirmed  *)
(* candles.  For BaseStrategy._generate_signal and for                     *)
(* SignalProcessor.analyze_market_data.                                    *)
(***************************************************************************)
SpacedByCooldown(signals) ==
    \A i, j \in 1..Len(signals) :
        i < j => signals[j].timestamp - signals[i].timestamp
                     >= SIGNAL_COOLDOWN_MINUTES

C1_Cooldown ==
    /\ SpacedByCooldown(emitted)
    /\ SpacedByCooldown(sink_calls)
    /\ [][(emitted' # emitted \/ sink_calls' # sink_calls) =>
            \A i \in 1..Len(emitted) :
                now - emitted[i].timestamp >= SIGNAL_COOLDOWN_MINUTES]_vars

\* a signal was emitted, an analysis inside the window was abandoned, and a
\* second signal followed once the window had passed
C1_Witness ==
    /\ Len(emitted) = 2
    /\ Len(sink_calls) = 2
    /\ cooldown_skips > 0
    /\ emitted[2].timestamp - emitted[1].timestamp = SIGNAL_COOLDOWN_MINUTES

(***************************************************************************)
(* C2: with WS_RECONNECT_ATTEMPTS = N, the k-th consecutive failure        *)
(* (1 <= k <= N) is followed by a sleep of WS_RECONNECT_DELAY * k, the     *)
(* delays slept are non-decreasing, and the (N+1)-th consecutive failure   *)
(* ends the loop: when every connect attempt failed, the loop has ended    *)
(* after exactly N+1 connect attempts and N sleeps and no attempt follows. *)
(***************************************************************************)
C2_Backoff ==
    /\ main_task = "sleep" =>
          /\ failures \in 1..WS_RECONNECT_ATTEMPTS
          /\ Len(sleeps) = failures
          /\ Last(sleeps) = WS_RECONNECT_DELAY * failures
    /\ NonDecreasing(sleeps)
    /\ main_task = "ended" =>
          /\ failures = WS_RECONNECT_ATTEMPTS + 1
          /\ Len(sleeps) = WS_RECONNECT_ATTEMPTS
    /\ connect_successes = 0 =>
          /\ connect_calls <= WS_RECONNECT_ATTEMPTS + 1
          /\ main_task = "ended" => connect_calls = WS_RECONNECT_ATTEMPTS + 1

C2_Witness ==
    /\ main_task = "ended"
    /\ connect_successes = 0
    /\ sleeps = <<5, 10, 15, 20, 25>>

(***************************************************************************)
(* C3: when the reconnect budget is exhausted the session reports a        *)
(* ReconnectExhausted error to its owner.                                  *)
(***************************************************************************)
C3_ExhaustedReported ==
    main_task = "ended" =>
        \E i \in 1..Len(owner_errors) : owner_errors[i] = "ReconnectExhausted"

(***************************************************************************)
(* C4: the candle, trade and order-book-history buffers of the             *)
(* WebSocketManager and of the MarketDataStore never hold more than their  *)
(* capacity, and every insertion leaves the most recent items in arrival   *)
(* order, the oldest evicted first: capacity + 1 insertions leave exactly  *)
(* capacity items.                                                         *)
(***************************************************************************)
C4_Bounded ==
    /\ Len(kline_data) <= KLINE_LIMIT
    /\ Len(extended_kline_data) <= AI_KLINES_COUNT
    /\ Len(trade_data) <= WsMaxTrades
    /\ Len(extended_orderbook_history) <= WsMaxOrderbookHistory
    /\ Len(store_klines) <= StoreMaxKlines
    /\ Len(store_trades) <= StoreMaxTrades
    /\ Len(store_orderbook_history) <= StoreMaxOrderbookHistory

\* `kept` is the `capacity` most recent items of `all`, in the order of `all`
MostRecent(all, capacity, kept) ==
    /\ Len(kept) = (IF Len(all) < capacity THEN Len(all) ELSE capacity)
    /\ \A i \in 1..Len(kept) : kept[i] = all[Len(all) - Len(kept) + i]

\* the buffer after one insertion: what it held, then the item now last
InsertedOne(buffer, capacity, after) ==
    /\ after # <<>>
    /\ MostRecent(Append(buffer, after[Len(after)]), capacity, after)

TradeIds(trades) == [i \in 1..Len(trades) |-> trades[i].trade_id]

FrameIds(frame) == [i \in 1..Len(frame.data) |-> frame.data[i].id]

C4_FifoStep ==
    FrameHandled =>
        LET frame == last_frame'[1]
        IN  /\ (stack = "ws" /\ frame.topic = "kline" /\ frame.data.confirm) =>
                  /\ InsertedOne(kline_data, KLINE_LIMIT, kline_data')
                  /\ InsertedOne(extended_kline_data, AI_KLINES_COUNT,
                                 extended_kline_data')
                  /\ kline_data'[Len(kline_data')].timestamp = frame.data.start
                  /\ extended_kline_data'[Len(extended_kline_data')].timestamp
                         = frame.data.start
            /\ (stack = "ws" /\ frame.topic = "publicTrade") =>
                  MostRecent(TradeIds(trade_data) \o FrameIds(frame),
                             WsMaxTrades, TradeIds(trade_data'))
            /\ (stack = "ws" /\ frame.topic = "orderbook") =>
                  /\ InsertedOne(extended_orderbook_history,
                                 WsMaxOrderbookHistory,
                                 extended_orderbook_history')
                  /\ extended_orderbook_history'
                         [Len(extended_orderbook_history')].spread
                         = frame.data.spread
            /\ (stack = "mm" /\ frame.topic = "publicTrade") =>
                  MostRecent(TradeIds(store_trades) \o FrameIds(frame),
                             StoreMaxTrades, TradeIds(store_trades'))
            /\ (stack = "mm" /\ frame.topic = "orderbook"
                    /\ store_orderbook_history' # store_orderbook_history) =>
                  /\ InsertedOne(store_orderbook_history,
                                 StoreMaxOrderbookHistory,
                                 store_orderbook_history')
                  /\ store_orderbook_history'
                         [Len(store_orderbook_history')].timestamp = frame.data.u
            /\ (stack = "mm" /\ frame.topic = "kline" /\ frame.data.confirm
                    /\ store_klines' # store_klines) =>
                  /\ InsertedOne(store_klines, StoreMaxKlines, store_klines')
                  /\ store_klines'[Len(store_klines')].timestamp
                         = frame.data.start

AllOhlcValid(klines) == \A i \in 1..Len(klines) : OhlcValid(klines[i])

C5_StoredCandlesValid ==
    /\ AllOhlcValid(kline_data)
    /\ AllOhlcValid(extended_kline_data)
    /\ AllOhlcValid(strategy_kline_data)
    /\ AllOhlcValid(store_klines)

(***************************************************************************)
(* C6: in the MarketManager pipeline every valid confirmed candle received *)
(* is stored by add_kline and followed by exactly one call of              *)
(* _check_for_trading_signals, unconfirmed updates of the same period      *)
(* having come before it or not.                                           *)
(***************************************************************************)
\* the store's last candle is the confirmed candle of the period `start`
AlreadyConfirmed(klines, start) ==
    /\ klines # <<>>
    /\ klines[Len(klines)].timestamp = start
    /\ klines[Len(klines)].confirm

C6_ConfirmedStoredAndChecked ==
    [][(stack = "mm" /\ FrameHandled
            /\ last_frame'[1].topic = "kline"
            /\ last_frame'[1].data.confirm
            /\ OhlcValid(last_frame'[1].data)
            /\ ~AlreadyConfirmed(store_klines, last_frame'[1].data.start)) =>
          /\ store_klines' # <<>>
          /\ store_klines'[Len(store_klines')].timestamp
                 = last_frame'[1].data.start
          /\ store_klines'[Len(store_klines')].confirm
          /\ check_calls' = check_calls + 1]_vars

(***************************************************************************)
(* C7: a candle with confirm = false never triggers signal evaluation:     *)
(* no indicators are computed, no rules evaluated, nothing is appended to  *)
(* a signal history, last_signal_time is not set and the signal sink is    *)
(* not called.  For BaseStrategy.analyze_kline and for                     *)
(* MarketManager._handle_kline.                                            *)
(***************************************************************************)
C7_UnconfirmedNeverEvaluates ==
    [][(FrameHandled
            /\ last_frame'[1].topic = "kline"
            /\ ~last_frame'[1].data.confirm) =>
          UNCHANGED <<evaluations, check_calls, cooldown_skips,
                      strategy_current_indicators, strategy_signals_history,
                      strategy_last_signal_time, sp_signals_history,
                      sp_last_signal_time, emitted, sink_calls>>]_vars

\* an unconfirmed candle arrived when the strategy held enough candles and no
\* cooldown was in force
C7_Witness ==
    /\ stack = "ws"
    /\ last_frame # <<>>
    /\ last_frame[1].topic = "kline"
    /\ ~last_frame[1].data.confirm
    /\ Len(strategy_kline_data) >= MinKlines
    /\ ~Last(strategy_kline_data).confirm
    /\ strategy_last_signal_time = <<>>
    /\ evaluations = 0

(***************************************************************************)
(* C8: the votes are counted per direction; the result is BUY iff there    *)
(* are strictly more BUY votes than SELL votes, SELL iff strictly more     *)
(* SELL votes, HOLD iff the counts are equal (no votes included); and a    *)
(* result is emitted only if it is not HOLD and its confidence is at       *)
(* least MIN_SIGNAL_CONFIDENCE.  For both engines.                         *)
(***************************************************************************)
CountDir(votes, dir) == Cardinality({i \in DOMAIN votes : votes[i].dir = dir})

\* the votes SignalProcessor casts: none when there is no current price
SpCastVotes(in) ==
    IF in.ind.current_price = 0 THEN <<>> ELSE SpVotes(in.ind, in.order_imbalance)

ResolvedByCount(result, votes) ==
    LET b == CountDir(votes, "BUY")
        s == CountDir(votes, "SELL")
    IN  /\ result.type = "BUY" <=> b > s
        /\ result.type = "SELL" <=> s > b
        /\ result.type = "HOLD" <=> b = s

EmittedOnlyIfConfident(result, emits) ==
    emits => result.type # "HOLD" /\ result.confidence >= MIN_SIGNAL_CONFIDENCE

C8_VoteResolution ==
    eval_input # <<>> =>
        LET in == eval_input[1]
            r == eval_result[1]
        IN  /\ ResolvedByCount(r.bs, BsVotes(in.ind))
            /\ ResolvedByCount(r.sp, SpCastVotes(in))
            /\ EmittedOnlyIfConfident(r.bs, r.bs_emits)
            /\ EmittedOnlyIfConfident(r.sp, r.sp_emits)

\* a tie between one or more votes on each side, resolved to HOLD by both
C8_Witness ==
    /\ eval_input # <<>>
    /\ LET in == eval_input[1]
           r == eval_result[1]
       IN  /\ CountDir(BsVotes(in.ind), "BUY") = CountDir(BsVotes(in.ind), "SELL")
           /\ CountDir(BsVotes(in.ind), "BUY") > 0
           /\ CountDir(SpCastVotes(in), "BUY") = CountDir(SpCastVotes(in), "SELL")
           /\ CountDir(SpCastVotes(in), "BUY") > 0
           /\ r.bs.type = "HOLD" /\ r.sp.type = "HOLD"
           /\ ~r.bs_emits /\ ~r.sp_emits

(***************************************************************************)
(* C9: the confidence of the winning direction is min(1.0, mean weight of  *)
(* its votes + bonus), the bonus being 0.15 when the current volume is     *)
(* more than 2 x the recent average, 0.1 when it is more than 1.5 x but    *)
(* not more than 2 x, and 0 otherwise.                                     *)
(***************************************************************************)
\* the bonus of the claim for a current volume and an average num/den
ClaimedBonus(current_volume, num, den) ==
    IF den * current_volume > 2 * num THEN BonusLarge
    ELSE IF 2 * den * current_volume > 3 * num THEN BonusSmall
    ELSE 0

ClaimedConfidence(result, votes, bonus) ==
    result.type # "HOLD" =>
        result.confidence =
            Min(ConfScale, MeanWeight(OfDir(votes, result.type)) + bonus)

C9_Confidence ==
    eval_input # <<>> =>
        LET in == eval_input[1]
            r == eval_result[1]
            avg == BsAvgVolume(in.volumes)
        IN  /\ ClaimedConfidence(r.bs, BsVotes(in.ind),
                    ClaimedBonus(Last(in.volumes), avg.num, avg.den))
            /\ Len(in.trades) >= VolumeWindow =>
                  ClaimedConfidence(r.sp, SpCastVotes(in),
                      ClaimedBonus(Last(in.volumes),
                                   SumSeq(LastN(in.trades, VolumeWindow)),
                                   VolumeWindow))

(***************************************************************************)
(* C10: starting from an empty pipeline, MinKlines + 1 confirmed candles   *)
(* of which the last brings the RSI to the oversold threshold with a       *)
(* volume of more than 2 x the recent average yield exactly one signal, a  *)
(* BUY of confidence at least 0.95 whose reason names the RSI.             *)
(***************************************************************************)
NamesRule(reason, rule) == \E i \in 1..Len(reason) : reason[i] = rule

C10_EndToEnd ==
    [][(stack = "ws"
            /\ emitted = <<>>
            /\ frames = MinKlines /\ confirmed_received = MinKlines
            /\ Volumes(kline_data) = [i \in 1..MinKlines |-> 1]
            /\ FrameHandled
            /\ last_frame'[1].topic = "kline"
            /\ last_frame'[1].data.confirm
            /\ last_frame'[1].data.volume = 9
            /\ strategy_current_indicators' = <<IndOversold>>) =>
          /\ Len(emitted') = 1
          /\ sink_calls' = emitted'
          /\ emitted'[1].signal_type = "BUY"
          /\ 20 * emitted'[1].confidence >= 19 * ConfScale
          /\ NamesRule(emitted'[1].reason, "RSI")]_vars

(***************************************************************************)
(* C11: every emitted signal is appended to signals_history, which holds   *)
(* no more than the SignalsHistoryLimit most recent signals, and is handed *)
(* to the subscriber exactly once; a signal in the history is never        *)
(* modified, and nothing is handed to the subscriber that was not          *)
(* appended to the history.                                                *)
(***************************************************************************)
\* the signals_history of the object graph that runs
SignalsHistory ==
    IF stack = "ws" THEN strategy_signals_history ELSE sp_signals_history

\* `after` is `before` or `before` with one item appended
GrowsByAtMostOne(before, after) ==
    \/ after = before
    \/ /\ Len(after) = Len(before) + 1
       /\ \A i \in 1..Len(before) : after[i] = before[i]

C11_HistoryAndSink ==
    /\ [](/\ Len(SignalsHistory) <= SignalsHistoryLimit
          /\ MostRecent(sink_calls, SignalsHistoryLimit, SignalsHistory)
          /\ sink_calls = emitted)
    /\ [][/\ GrowsByAtMostOne(sink_calls, sink_calls')
          /\ sink_calls' # sink_calls =>
                 SignalsHistory'[Len(SignalsHistory')]
                     = sink_calls'[Len(sink_calls')]
          /\ SignalsHistory' # SignalsHistory => sink_calls' # sink_calls]_vars

\* more signals were emitted than the history holds
C11_Witness ==
    /\ stack = "mm"
    /\ Len(sink_calls) = SignalsHistoryLimit + 1
    /\ Len(sp_signals_history) = SignalsHistoryLimit
    /\ sp_signals_history[SignalsHistoryLimit] = sink_calls[Len(sink_calls)]

(***************************************************************************)
(* C12: handing a signal to the sink never blocks ingestion: while a sink  *)
(* invocation has not completed, the frame handler is ready for the next   *)
(* inbound frame.                                                          *)
(***************************************************************************)
C12_SinkNeverBlocksIngestion == sink_running > 0 => read_loop = "ready"

(***************************************************************************)
(* C13: an exception raised by the signal sink is caught and logged: the   *)
(* read loop goes on, is_connected and reconnect_count keep their values,  *)
(* no reconnect is started, and the handler is ready for the next frame.   *)
(***************************************************************************)
C13_SinkErrorContained ==
    [][(read_loop = "in_sink" /\ handler_errors' = handler_errors + 1) =>
          /\ read_loop' = "ready"
          /\ main_task = "listen" /\ main_task' = "listen"
          /\ is_connected' = is_connected
          /\ reconnect_count' = reconnect_count
          /\ UNCHANGED <<sleeps, failures, connect_calls, owner_errors>>
          /\ UNCHANGED <<ws_vars, strategy_vars>>]_vars

\* the sink raised, and a later confirmed candle was stored by a session
\* that is still connected and has never failed
C13_Witness ==
    /\ handler_errors = 1
    /\ sink_calls # <<>>
    /\ is_connected /\ main_task = "listen" /\ connect_calls = 1
    /\ last_frame # <<>>
    /\ last_frame[1].topic = "kline"
    /\ last_frame[1].data.confirm
    /\ Len(kline_data) = MinKlines + 1 \/ Len(kline_data) = KLINE_LIMIT
    /\ confirmed_received = MinKlines + 1

(***************************************************************************)
(* C14: a value returned by MarketDataStore.get_market_summary is never    *)
(* changed by a later write to the store: whatever add_kline, add_trades   *)
(* or update_orderbook do afterwards, the summary reads as it did when it  *)
(* was returned, its price-level lists included.                           *)
(***************************************************************************)
C14_SnapshotIsolated ==
    last_summary # <<>> => ReadSummary(last_summary[1]) = summary_view[1]

(***************************************************************************)
(* C15: two consecutive get_market_summary calls with no write to the      *)
(* store between them return equal data.                                   *)
(***************************************************************************)
C15_RepeatedSummaryEqual ==
    prev_summary # <<>> =>
        ReadSummary(prev_summary[1]) = ReadSummary(last_summary[1])

(***************************************************************************)
(* C16: the lock of the MarketDataStore is never held by the thread of     *)
(* _handle_kline while signal evaluation runs: add_kline has released it   *)
(* before _check_for_trading_signals is called, and get_market_summary has *)
(* released it before validate_signal_conditions, analyze_market_data and  *)
(* the signal callback run.  The thread holds it only inside add_kline and *)
(* inside get_market_summary.                                              *)
(***************************************************************************)
C16_LockNotHeldInEvaluation ==
    /\ mm_pc \in {"summary_call", "evaluate"} => lock # "handler"
    /\ lock = "handler" <=> mm_pc \in {"add_kline", "summary"}

\* evaluation runs while another thread is inside the store
C16_Witness ==
    /\ mm_pc = "evaluate"
    /\ lock = "reader"
    /\ Len(store_klines) = StoreMaxKlines

(***************************************************************************)
(* C17: WebSocketManager.start() either returns normally, and then         *)
(* is_connected is True, or raises the startup failure, and then it has    *)
(* slept StartPolls times, is_connected was False at each of its looks and *)
(* is False when it raises.  It never returns normally while the session   *)
(* is not connected.                                                       *)
(***************************************************************************)
StartReturns == start_call = "polling" /\ start_call' = "returned"

StartRaises == start_call = "polling" /\ start_call' = "raised"

C18_StreamingOnlyAfterAck == is_connected => subscribe_ack = "ok"

(***************************************************************************)
(* C19: every successful _connect_and_subscribe sets reconnect_count to 0, *)
(* so the attempt limit bounds consecutive failures only: reconnect_count  *)
(* never exceeds the number of failures since the last successful connect, *)
(* the first failure after a successful connect is followed by a sleep of  *)
(* WS_RECONNECT_DELAY * 1, and the loop ends only after more than          *)
(* WS_RECONNECT_ATTEMPTS failures with no successful connect among them.   *)
(***************************************************************************)
ConnectSucceeds == connect_successes' = connect_successes + 1

FailsFirstAfterSuccess ==
    connect_successes > 0 /\ failures = 0 /\ failures' = 1

C19_SuccessResetsCounter ==
    /\ [](/\ reconnect_count <= failures
          /\ main_task = "ended" => failures > WS_RECONNECT_ATTEMPTS)
    /\ [][/\ ConnectSucceeds => reconnect_count' = 0
          /\ FailsFirstAfterSuccess =>
                 /\ reconnect_count' = 1
                 /\ main_task' = "sleep"
                 /\ sleeps' = <<WS_RECONNECT_DELAY * 1>>]_vars

\* two connects failed, the third succeeded, and the failure after it is
\* followed by the first delay again
C19_Witness ==
    /\ connect_calls = 3
    /\ connect_successes = 1
    /\ failures = 1
    /\ main_task = "sleep"
    /\ reconnect_count = 1
    /\ sleeps = <<WS_RECONNECT_DELAY>>

(***************************************************************************)
(* C20: a malformed inbound frame (invalid JSON, or a decoded frame whose  *)
(* handler raises) is dropped: the step that handles it leaves the read    *)
(* loop ready for the next frame, does not change is_connected or          *)
(* reconnect_count, and modifies no data buffer of the WebSocketManager or *)
(* of the strategy.                                                        *)
(***************************************************************************)
MalformedFrameHandled ==
    FrameHandled /\ "malformed" \in DOMAIN last_frame'[1]

C20_MalformedFrameDropped ==
    [][MalformedFrameHandled =>
          /\ read_loop' = "ready"
          /\ main_task = "listen" /\ main_task' = "listen"
          /\ is_connected' = is_connected
          /\ reconnect_count' = reconnect_count
          /\ UNCHANGED <<ws_vars, strategy_vars>>]_vars

(***************************************************************************)
(* C21: deliberate shutdown is terminal.  After stop() was called the      *)
(* session never again attempts a connect, opens a socket, sends a frame   *)
(* or sets is_connected to True, and the main task takes no further step;  *)
(* a stop() that arrives during a backoff sleep cancels the sleep, so the  *)
(* retry after it does not run.                                            *)
(***************************************************************************)
Stopped == stop_call # "not_called"

C21_StopIsTerminal ==
    /\ [](Stopped =>
             /\ ~is_connected
             /\ ping_task # "running"
             /\ main_task \in {"not_started", "ended", "cancelled"})
    /\ [][Stopped =>
             /\ connect_calls' = connect_calls
             /\ websocket' = websocket
             /\ sent' = sent
             /\ ~is_connected'
             /\ main_task' = main_task
             /\ stop_call' = stop_call]_vars

\* stop() arrived during the second backoff sleep; start() was still
\* polling and has raised since
C21_Witness ==
    /\ stop_call = "sleep"
    /\ main_task = "cancelled"
    /\ Len(sleeps) = 2
    /\ connect_calls = 2
    /\ start_call = "raised"

\* C22: one logical connection per session.  Across reconnects at most one
\* ping task is created and neither finished nor cancelled, and it is the
\* one self.ping_task refers to; while the main task reads frames, the socket
\* it reads is open and is self.websocket, the one socket the subscribe
\* request of this connection was sent on (once) and the pongs and the pings
\* are sent on.  (There is one
\* main task by construction: start() creates it, and start() is called
\* once.)
C22_OneLogicalConnection ==
    /\ live_pings <= 1
    /\ live_pings = 1 <=> ping_task = "running"
    /\ main_task = "listen" =>
           /\ websocket # 0
           /\ websocket_open
           /\ Cardinality({i \in DOMAIN sent : sent[i] = SubscribeMessage}) = 1

\* a second connection made while the ping task of the first one was still
\* running
C22_Witness ==
    /\ connect_successes = 2
    /\ main_task = "listen"
    /\ live_pings = 1
    /\ PingsSent = 1
    /\ stop_call = "not_called"

\* C23: the indicator functions never fail on insufficient history.  For
\* every window size from 0 up and every series shorter than the window the
\* function needs (the empty series included): RSI (which needs period + 1
\* prices) returns 50; the Bollinger bands are all three the last price (0
\* for the empty series, which has none); SMA and EMA return a value (0)
\* without raising; the volatility (which needs two prices) returns a value
\* (0) without raising.  And RSI returns 100 whenever the history suffices
\* and the losses over the trailing period deltas sum to zero.
C23_IndicatorsOnShortHistory ==
    eval_input # <<>> =>
        LET data == eval_input[1].data
            period == eval_input[1].period
            r == eval_result[1]
        IN  /\ Len(data) < period + 1 => FltEq(r.rsi, 50)
            /\ Len(data) < period =>
                   /\ ~r.bb.raised
                   /\ FltEq(r.bb.middle,
                            IF data = <<>> THEN 0 ELSE data[Len(data)])
                   /\ FltEq(r.bb.width_sq, 0)
                   /\ ~r.sma.raised /\ r.sma.d # 0
                   /\ ~r.ema.raised /\ r.ema.d # 0
            /\ Len(data) < 2 => FltEq(r.volatility_sq, 0)
            /\ (/\ period >= 1
                /\ Len(data) >= period + 1
                /\ \A i \in 1..(Len(data) - 1) :
                       i > Len(data) - 1 - period => data[i + 1] >= data[i])
                   => FltEq(r.rsi, 100)

\* the empty series with a window of three prices
C23_Witness ==
    /\ eval_input # <<>>
    /\ eval_input[1].data = <<>>
    /\ eval_input[1].period = 3
    /\ FltEq(eval_result[1].rsi, 50)
    /\ FltEq(eval_result[1].bb.middle, 0)

\* a rising series that suffices for the window: no loss in the trailing
\* deltas
C23_WitnessRsi100 ==
    /\ eval_input # <<>>
    /\ eval_input[1].data = <<2, 1, 2, 3>>
    /\ eval_input[1].period = 2
    /\ FltEq(eval_result[1].rsi, 100)

(***************************************************************************)
(* C24: whenever the read loop ends for a reason other than stop() (an     *)
(* exception, or the stream simply ending), the session sets is_connected  *)
(* to False and waits a backoff delay before the next connect: the step    *)
(* that leaves _listen_messages ends with is_connected False and with the  *)
(* main task in its backoff sleep (or ended, when the reconnect attempts   *)
(* are used up), never back at the connect and never still marked          *)
(* connected.                                                              *)
(***************************************************************************)
ReadLoopEnds ==
    main_task = "listen" /\ main_task' # "listen" /\ stop_call' = "not_called"

C24_ReadLoopEndBacksOff ==
    [][ReadLoopEnds => ~is_connected' /\ main_task' \in {"sleep", "ended"}]_vars

(***************************************************************************)
(* C25: a failure to send the client ping is a transport failure.  The     *)
(* step in which the ping task leaves its loop while the session is marked *)
(* connected (the send raised) ends with the session Disconnected and the  *)
(* main task on its way to a reconnect; and the session is never marked    *)
(* connected without a running ping task.                                  *)
(***************************************************************************)
PingLoopBreaks ==
    ping_task = "running" /\ ping_task' = "done" /\ is_connected

C25_PingFailureIsTransportFailure ==
    /\ [][PingLoopBreaks =>
             ~is_connected' /\ main_task' \in {"sleep", "connect"}]_vars
    /\ [](is_connected => ping_task = "running")

PingFrameHandled == FrameHandled /\ "op" \in DOMAIN last_frame'[1]

Pong(args) == [op |-> "pong", args |-> args]

C27_PingAnswered ==
    [][PingFrameHandled =>
          /\ \/ /\ sent' = Append(sent, Pong(last_frame'[1].data))
                /\ handler_errors' = handler_errors
             \/ /\ sent' = sent
                /\ handler_errors' = handler_errors + 1
          /\ message_counts' = [message_counts EXCEPT !["ping"] = @ + 1,
                                                      !["total"] = @ + 1]
          /\ read_loop' = "ready"
          /\ UNCHANGED <<ws_vars, strategy_vars, ticker_data,
                         strategy_ticker_data, sink_calls>>]_vars

\* a ping with args was answered after an earlier frame had been handled
C27_Witness ==
    /\ last_frame # <<>>
    /\ "op" \in DOMAIN last_frame[1]
    /\ last_frame[1].data = <<2>>
    /\ sent[Len(sent)] = Pong(<<2>>)
    /\ message_counts["ping"] = 1
    /\ message_counts["total"] = 2

\* the claim as stated: exactly one pong for every ping frame, and no counter
\* but the ping counter moves
C27_ExactlyOnePongOnlyPingCounter ==
    [][PingFrameHandled =>
          /\ sent' = Append(sent, Pong(last_frame'[1].data))
          /\ message_counts' = [message_counts EXCEPT !["ping"] = @ + 1]
          /\ UNCHANGED <<ws_vars, strategy_vars, ticker_data,
                         strategy_ticker_data, sink_calls>>]_vars

(***************************************************************************)
(* C28: topic routing.  A decoded data frame is dispatched by the prefix   *)
(* of its topic to exactly one of the four handlers, and only what that    *)
(* handler keeps changes: a ticker frame changes the ticker (of the        *)
(* session and of the strategy) and leaves candles, order book and trades  *)
(* unchanged, and likewise for the other three; the frame is counted under *)
(* its kind.  A frame with an unknown or missing topic is counted as       *)
(* unknown, reaches no handler (no buffer changes) and is not fatal: the   *)
(* read loop stays ready and the session connected.  As every received     *)
(* frame, the frame is also counted in the total.                          *)
(***************************************************************************)
DataFrameHandled ==
    /\ FrameHandled
    /\ "op" \notin DOMAIN last_frame'[1]
    /\ "malformed" \notin DOMAIN last_frame'[1]

KindOf(topic) ==
    CASE topic = "tickers" -> "ticker"
      [] topic = "kline" -> "kline"
      [] topic = "orderbook" -> "orderbook"
      [] topic = "publicTrade" -> "trade"
      [] OTHER -> "unknown"

kline_state == <<kline_data, extended_kline_data, strategy_kline_data>>

trade_state == <<trade_data, strategy_trade_data>>

ticker_state == <<ticker_data, strategy_ticker_data>>

C28_TopicRouting ==
    [][DataFrameHandled =>
          LET kind == KindOf(last_frame'[1].topic)
          IN  /\ message_counts' = [message_counts EXCEPT ![kind] = @ + 1,
                                                          !["total"] = @ + 1]
              /\ kind # "ticker" => UNCHANGED ticker_state
              /\ kind # "kline" => UNCHANGED kline_state
              /\ kind # "orderbook" => UNCHANGED extended_orderbook_history
              /\ kind # "trade" => UNCHANGED trade_state
              /\ kind = "unknown" =>
                     /\ UNCHANGED <<strategy_vars, sink_vars, sent>>
                     /\ is_connected' /\ main_task' = "listen"]_vars

\* a ticker frame was stored after a candle and a frame of an unknown topic
C28_Witness ==
    /\ last_frame # <<>>
    /\ last_frame[1].topic = "tickers"
    /\ ticker_data # <<>>
    /\ ticker_data = strategy_ticker_data
    /\ kline_data # <<>>
    /\ message_counts["ticker"] = 1
    /\ message_counts["kline"] = 1
    /\ message_counts["unknown"] = 1
    /\ message_counts["total"] = 3

\* the claim as stated: a frame of unknown or missing topic moves no counter
\* but the unknown counter
C28_UnknownMovesOnlyUnknownCounter ==
    [][DataFrameHandled /\ KindOf(last_frame'[1].topic) = "unknown" =>
          message_counts' = [message_counts EXCEPT !["unknown"] = @ + 1]]_vars

(***************************************************************************)
(* C29: once the transport is connected, _connect_and_subscribe sends      *)
(* exactly one subscribe request, naming the four topics (ticker, kline,   *)
(* order book, trades) of the configured symbol, and only after that marks *)
(* the session connected: the step that ends the subscribe stage with the  *)
(* socket still open (no stop(), no loss of the connection) has sent       *)
(* exactly that request on the socket and leaves the session connected     *)
(* and reading.                                                            *)
(***************************************************************************)
SubscribeStageEnds ==
    /\ main_task = "subscribe"
    /\ main_task' # "subscribe"
    /\ stop_call' = "not_called"
    /\ websocket_open'

C29_SubscribeThenConnected ==
    [][SubscribeStageEnds =>
          /\ Cardinality({i \in DOMAIN sent' : sent'[i] = SubscribeMessage}) = 1
          /\ {sent'[1].args[i].topic : i \in 1..4} =
                 {"tickers", "kline", "orderbook", "publicTrade"}
          /\ \A i \in 1..4 : sent'[1].args[i].symbol = TRADING_PAIR
          /\ is_connected'
          /\ main_task' = "listen"]_vars

(***************************************************************************)
(* C30: MarketDataStore.add_kline.  If the timestamp of the incoming       *)
(* candle equals that of the last stored candle, the last candle is        *)
(* replaced by the incoming one and the length is unchanged; otherwise the *)
(* incoming candle is appended as the new last element and every candle    *)
(* stored before is left as it was (the deque dropping its oldest element  *)
(* when it is full).                                                       *)
(***************************************************************************)
AddKlineCalled ==
    /\ stack = "mm"
    /\ FrameHandled
    /\ last_frame'[1].topic = "kline"
    /\ ProcessKline(last_frame'[1].data) # <<>>

C30_AddKlineReplacesOrAppends ==
    [][AddKlineCalled =>
          LET kline == ProcessKline(last_frame'[1].data)[1]
          IN  IF store_klines # <<>>
                 /\ Last(store_klines).timestamp = kline.timestamp
              THEN store_klines' = ReplaceLast(store_klines, kline)
              ELSE store_klines' =
                       DequeAppend(store_klines, kline, StoreMaxKlines)]_vars

(***************************************************************************)
(* C31: confirmed candles are immutable.  A candle stored with             *)
(* confirm = true is still in the buffer, as it was, after any later       *)
(* add_kline call, unless it was the oldest candle of a full buffer (which *)
(* an append evicts).                                                      *)
(***************************************************************************)
C31_ConfirmedCandlesImmutable ==
    [][AddKlineCalled =>
          \A i \in DOMAIN store_klines :
              store_klines[i].confirm =>
                  \/ \E j \in DOMAIN store_klines' :
                         store_klines'[j] = store_klines[i]
                  \/ i = 1 /\ Len(store_klines) = StoreMaxKlines]_vars

(***************************************************************************)
(* C32: the series BaseStrategy computes its indicators from holds one     *)
(* entry per candle period.  On the WebSocketManager path, after k         *)
(* confirmed candles (k <= KLINE_LIMIT) and any number of unconfirmed      *)
(* updates the series has exactly k entries, all of them confirmed.        *)
(***************************************************************************)
C32_OneEntryPerPeriod ==
    (stack = "ws" /\ confirmed_received <= KLINE_LIMIT) =>
        /\ Len(strategy_kline_data) = confirmed_received
        /\ \A i \in DOMAIN strategy_kline_data : strategy_kline_data[i].confirm

(***************************************************************************)
(* C33: every accepted order-book update replaces the current snapshot     *)
(* and appends exactly one summary entry, with the spread and the          *)
(* imbalance of the update, to the bounded order-book history; in the      *)
(* WebSocketManager and in the MarketDataStore alike.                      *)
(***************************************************************************)
OrderbookFrameHandled == FrameHandled /\ last_frame'[1].topic = "orderbook"

\* `after` is `before` with one summary of the update appended, within `limit`
OneSummaryAppended(before, after, update, limit) ==
    /\ after # <<>>
    /\ Last(after).spread = update.spread
    /\ Last(after).imbalance = update.imbalance
    /\ after = LastN(Append(before, Last(after)), limit)

SnapshotReplaced(snapshot, update) ==
    /\ snapshot # <<>>
    /\ snapshot[1].spread = update.spread
    /\ snapshot[1].imbalance = update.imbalance
    /\ snapshot[1].bids = Book(update.spread, update.imbalance).bids
    /\ snapshot[1].asks = Book(update.spread, update.imbalance).asks

C33_OrderbookUpdateRecorded ==
    [][OrderbookFrameHandled =>
          IF stack = "ws"
          THEN /\ SnapshotReplaced(orderbook_data', last_frame'[1].data)
               /\ OneSummaryAppended(extended_orderbook_history,
                                     extended_orderbook_history',
                                     last_frame'[1].data, WsMaxOrderbookHistory)
          ELSE /\ SnapshotReplaced(store_orderbook', last_frame'[1].data)
               /\ OneSummaryAppended(store_orderbook_history,
                                     store_orderbook_history',
                                     last_frame'[1].data,
                                     StoreMaxOrderbookHistory)]_vars

(***************************************************************************)
(* C34: after every order-book update the volume profile holds at most its *)
(* cap of levels (WsVolumeProfileCap in the WebSocketManager,              *)
(* StoreVolumeProfileCap in the MarketDataStore), the total volume of      *)
(* every level is the sum of its bid volume and its ask volume, and an     *)
(* update drops no level whose total volume is greater than that of a      *)
(* level it keeps.                                                         *)
(***************************************************************************)
ProfileWithinCap(profile, cap) ==
    /\ Len(profile) <= cap
    /\ \A i \in DOMAIN profile :
           profile[i].total_volume = profile[i].bid_volume + profile[i].ask_volume

\* the levels of `before` with the orders of the update added, none dropped
ProfileFilled(before, update) ==
    ProfileAddAll(ProfileAddAll(before,
                                Book(update.spread, update.imbalance).bids,
                                "bid"),
                  Book(update.spread, update.imbalance).asks, "ask")

LargestKept(filled, after) ==
    /\ \A j \in DOMAIN after : \E i \in DOMAIN filled : filled[i] = after[j]
    /\ \A i \in DOMAIN filled :
           (\A j \in DOMAIN after : after[j].price # filled[i].price) =>
               \A j \in DOMAIN after :
                   after[j].total_volume >= filled[i].total_volume

C35_OneAnalysisAtATime ==
    \A r, q \in 1..MaxRequests :
        (ai_pc[r] \in AiRunning /\ ai_pc[q] \in AiRunning) => r = q

(***************************************************************************)
(* C36: the MarketManager pipeline never emits a signal: the summary of    *)
(* the store holds at most SummaryKlines candles and the SignalProcessor   *)
(* requires MinKlines, so no rule is evaluated, the history of signals     *)
(* stays empty and the sink is never called.                               *)
(***************************************************************************)
C36_PipelineNeverEmits ==
    /\ sp_signals_history = <<>>
    /\ sp_last_signal_time = <<>>
    /\ emitted = <<>>
    /\ sink_calls = <<>>
    /\ evaluations = 0

\* the store holds MinKlines candles and the check ran on each of them
C36_Witness ==
    /\ stack = "mm"
    /\ Len(store_klines) >= MinKlines
    /\ check_calls >= MinKlines
    /\ sp_signals_history = <<>>

(***************************************************************************)
(* C37: when start() raises its startup failure the main-loop task is      *)
(* neither cancelled nor awaited: the raising step leaves the task where   *)
(* it is, the caller is told of the failure while is_connected is False,   *)
(* and as long as stop() is not called the task is not cancelled, so it    *)
(* goes on connecting and backing off and may still set is_connected.      *)
(***************************************************************************)
C37_StartupFailureLeavesMainTask ==
    /\ []((start_call = "raised" /\ stop_call = "not_called") =>
              main_task \notin {"cancelled", "not_started"})
    /\ [][StartRaises => (main_task' = main_task /\ ~is_connected')]_vars

\* the session is connected after its caller was told that startup failed
C37_Witness ==
    /\ start_call = "raised"
    /\ stop_call = "not_called"
    /\ is_connected
    /\ main_task = "listen"

(***************************************************************************)
(* C38: a reconnect preserves the accumulated state: no step of the main   *)
(* loop from the failure of a connection to the next successful            *)
(* _connect_and_subscribe changes the candle, trade and order-book         *)
(* buffers, the volume profile, the message counters, the series of the    *)
(* strategy, its signal history or its last_signal_time.                   *)
(***************************************************************************)
MainLoopMoves == main_task' # main_task

C38_ReconnectPreservesState ==
    [][MainLoopMoves =>
          /\ UNCHANGED <<kline_data, extended_kline_data, trade_data,
                         extended_orderbook_history>>
          /\ UNCHANGED <<orderbook_data, volume_profile, ticker_data,
                         message_counts>>
          /\ UNCHANGED <<strategy_kline_data, strategy_trade_data,
                         strategy_ticker_data, strategy_signals_history,
                         strategy_last_signal_time,
                         strategy_current_indicators>>]_vars

\* connected for the second time, after a failure of the first connection,
\* with candles and a signal in the buffers
C38_Witness ==
    /\ connect_successes = 2
    /\ main_task = "listen"
    /\ is_connected
    /\ reconnect_count = 0
    /\ kline_data # <<>>
    /\ strategy_signals_history # <<>>

(***************************************************************************)
(* C39: a signal counts as emitted before its delivery is known.  The step *)
(* that emits a signal puts it in the signal history and sets              *)
(* last_signal_time, with or without a signal callback; while the sink     *)
(* runs the signal is already in the history; the end of the sink, by      *)
(* return or by exception, changes neither the history nor                 *)
(* last_signal_time nor the calls made to the sink (no retry); and the     *)
(* next signal comes no sooner than the cooldown after it.                 *)
(***************************************************************************)
SignalEmitted == emitted' # emitted

SinkEnds == sink_running' < sink_running

Recorded(history, last_signal_time, signal) ==
    /\ history # <<>>
    /\ Last(history) = signal
    /\ last_signal_time = <<signal.timestamp>>

C39_EmittedBeforeDelivery ==
    /\ [](read_loop = "in_sink" =>
              /\ sink_calls # <<>>
              /\ Recorded(strategy_signals_history, strategy_last_signal_time,
                          Last(sink_calls)))
    /\ [](\A i, j \in DOMAIN sink_calls : sink_calls[i] = sink_calls[j] => i = j)
    /\ [][SignalEmitted =>
             /\ IF stack = "ws"
                THEN Recorded(strategy_signals_history',
                              strategy_last_signal_time', Last(emitted'))
                ELSE Recorded(sp_signals_history', sp_last_signal_time',
                              Last(emitted'))
             /\ emitted # <<>> =>
                    Last(emitted').timestamp - Last(emitted).timestamp
                        >= SIGNAL_COOLDOWN_MINUTES]_vars
    /\ [][SinkEnds =>
             UNCHANGED <<strategy_signals_history, strategy_last_signal_time,
                         sp_signals_history, sp_last_signal_time, sink_calls,
                         emitted>>]_vars

\* the sink raised on a signal, later frames were handled, and the signal
\* is the one of the history, handed to the sink once
C39_Witness ==
    /\ stack = "ws"
    /\ handler_errors = 1
    /\ read_loop = "ready"
    /\ Len(sink_calls) = 1
    /\ strategy_signals_history = sink_calls
    /\ strategy_last_signal_time = <<sink_calls[1].timestamp>>
    /\ now >= sink_calls[1].timestamp + SIGNAL_COOLDOWN_MINUTES - 1
    /\ frames = MaxFrames

\* a signal was emitted by a manager without a signal callback
C39_WitnessNoCallback ==
    /\ stack = "ws"
    /\ sink_calls = <<>>
    /\ strategy_signals_history # <<>>
    /\ strategy_last_signal_time # <<>>

====
